---- MODULE Spec2Model ----
(***************************************************************************)
(* NativeQL: the persistence orchestrator (DataSource), the SQL generator  *)
(* (SqlGenerator) and the result materializer (DataSource.mapResults),     *)
(* run against an execution transport that behaves like SQLite.            *)
(*                                                                         *)
(* Statements are kept structured (kind, table, SET list, WHERE clause)    *)
(* instead of as text; a WHERE clause is the sequence of conditions that   *)
(* buildConditions joins with AND.                                         *)
(***************************************************************************)
EXTENDS Integers, Sequences, FiniteSets, TLC

VARIABLES
    db,       \* transport: table name -> set of rows
    rowid,    \* transport: table name -> last AUTOINCREMENT value handed out
    ents,     \* heap of entity instances held by the caller, by slot
    call,     \* the last top-level call made on the DataSource, with its arguments
    sent,     \* statements the last call sent to the transport, in order
    hooks,    \* listener invocations of the last call, in order, each with what
              \* the listener could observe: statements sent so far, the entity's id
    err,      \* outcome of the last call: "none" or the error it failed with
    found,    \* entities returned by the last find / mapResults
    results,  \* raw rows handed to mapResults; what the filter compiler returned;
              \* the saves counted for one instance
    tx,       \* transaction() callers: program counters and transport trace
    repo,     \* Repository.target: the type the caller's repository is bound to
    isInitialized,  \* DataSource.isInitialized
    options,  \* DataSource.options
    wire      \* the first statements the transport received since construction

vars == <<db, rowid, ents, call, sent, hooks, err, found, results, tx, repo,
          isInitialized, options, wire>>

----------------------------------------------------------------------------
(* Bounds *)

MaxId == 2        \* rows a table may ever hold (AUTOINCREMENT never reuses)
MaxName == 2      \* distinct values of the data column
MaxTime == 1      \* distinct clock readings
MaxSlots == 3     \* entity instances on the caller's heap
MaxRows == 3      \* raw rows handed to mapResults
MaxDepth == 3     \* nesting of save() calls followed; a deeper one does not return
MaxCallers == 2   \* concurrent top-level callers of transaction()
MaxNest == 1      \* transaction() calls a callback may nest inside itself
MaxElems == 2     \* elements of an array stored in a simple-array column
MaxChars == 2     \* characters of a string element
MaxWire == 3      \* statements of the transport's trace that are kept
MaxVersion == 3   \* saves of one instance that are counted
MaxFail == 5      \* positions at which the transport may reject a statement of a call

----------------------------------------------------------------------------
(* JavaScript values.  Every cell value is an integer; undefined and null  *)
(* are two distinguished values below every id, name and time.             *)

UNDEF == 0 - 2
NULL == 0 - 1

Ids == 1..MaxId
Names == 1..MaxName
Times == 1..MaxTime
Slots == 1..MaxSlots

\* JS truthiness of a scalar: undefined, null and 0 are falsy
\* values of a simple-array column: a string is its sequence of characters,
\* an array its sequence of strings
Str(chars) == [tag |-> "string", chars |-> chars]

List(items) == [tag |-> "array", items |-> items]

Chars == {"a", "b", ","}

Strings == UNION {[1..n -> Chars] : n \in 0..MaxChars}

Arrays == UNION {[1..n -> Strings] : n \in 0..MaxElems}

Truthy(v) == v # UNDEF /\ v # NULL /\ v # 0

\* what the driver binds for a parameter: undefined is bound as NULL
Bind(v) == IF v = UNDEF THEN NULL ELSE v

RECURSIVE SeqToSet(_)
SeqToSet(s) == IF s = <<>> THEN {} ELSE {Head(s)} \cup SeqToSet(Tail(s))

----------------------------------------------------------------------------
(* Metadata registry: the registered entity types.                         *)
(*   User: id (primary, generated), name, deletedAt (@DeleteDateColumn),   *)
(*         posts = OneToMany(Post, "author", cascade: true)                *)
(*   Post: id, name, author = ManyToOne(User)                              *)
(*   Log : id, name,                                                       *)
(*         drafts = OneToMany(() => Draft, "log"), Draft not an @Entity,   *)
(*         items = OneToMany(() => Post, "log"), Post having no relation   *)
(*         back to Log                                                     *)
(*   Tag : id, name with @Index({ unique: true })                          *)
(*   Comment: id, name, author = ManyToOne(User, cascade: true)            *)
(*   Doc : id, name, version (@VersionColumn)                              *)
(*   Tally: name, version (@VersionColumn); no primary column              *)
(*   Article: id, name,                                                    *)
(*         labels = ManyToMany(() => Label, "articles", cascade: true)     *)
(*         with @JoinTable()                                               *)
(*   Label: id, name,                                                      *)
(*         articles = ManyToMany(() => Article, "labels")                  *)
(*   Node: id, name, parent = ManyToOne(() => Node, cascade: true),        *)
(*         children = OneToMany(() => Node, "parent", cascade: true)       *)
(*   Team: id, name, members = OneToMany(() => Member, "team",             *)
(*         cascade: true)                                                  *)
(*   Member: id, name, mentor = ManyToOne(() => Team),                     *)
(*         team = ManyToOne(() => Team)                                    *)

tables ==
    <<"User", "Post", "Log", "Tag", "Comment", "Doc", "Tally", "Article", "Label",
      "Node", "Team", "Member">>

Types == SeqToSet(tables)

columns ==
    [User |-> << [propertyName |-> "id", primary |-> TRUE, mode |-> "regular",
                  type |-> "integer"],
                 [propertyName |-> "name", primary |-> FALSE, mode |-> "regular",
                  type |-> "string"],
                 [propertyName |-> "deletedAt", primary |-> FALSE, mode |-> "deleteDate",
                  type |-> "datetime"] >>,
     Post |-> << [propertyName |-> "id", primary |-> TRUE, mode |-> "regular",
                  type |-> "integer"],
                 [propertyName |-> "name", primary |-> FALSE, mode |-> "regular",
                  type |-> "string"] >>,
     Log  |-> << [propertyName |-> "id", primary |-> TRUE, mode |-> "regular",
                  type |-> "integer"],
                 [propertyName |-> "name", primary |-> FALSE, mode |-> "regular",
                  type |-> "string"] >>,
     Tag  |-> << [propertyName |-> "id", primary |-> TRUE, mode |-> "regular",
                  type |-> "integer"],
                 [propertyName |-> "name", primary |-> FALSE, mode |-> "regular",
                  type |-> "string"] >>,
     Comment |-> << [propertyName |-> "id", primary |-> TRUE, mode |-> "regular",
                  type |-> "integer"],
                    [propertyName |-> "name", primary |-> FALSE, mode |-> "regular",
                  type |-> "string"] >>,
     Doc  |-> << [propertyName |-> "id", primary |-> TRUE, mode |-> "regular",
                  type |-> "integer"],
                 [propertyName |-> "name", primary |-> FALSE, mode |-> "regular",
                  type |-> "string"],
                 [propertyName |-> "version", primary |-> FALSE, mode |-> "version",
                  type |-> "integer"] >>,
     Tally |-> << [propertyName |-> "name", primary |-> FALSE, mode |-> "regular",
                   type |-> "string"],
                  [propertyName |-> "version", primary |-> FALSE, mode |-> "version",
                   type |-> "integer"] >>,
     Article |-> << [propertyName |-> "id", primary |-> TRUE, mode |-> "regular",
                     type |-> "integer"],
                    [propertyName |-> "name", primary |-> FALSE, mode |-> "regular",
                     type |-> "string"] >>,
     Label |-> << [propertyName |-> "id", primary |-> TRUE, mode |-> "regular",
                   type |-> "integer"],
                  [propertyName |-> "name", primary |-> FALSE, mode |-> "regular",
                   type |-> "string"] >>,
     Node |-> << [propertyName |-> "id", primary |-> TRUE, mode |-> "regular",
                  type |-> "integer"],
                 [propertyName |-> "name", primary |-> FALSE, mode |-> "regular",
                  type |-> "string"] >>,
     Team |-> << [propertyName |-> "id", primary |-> TRUE, mode |-> "regular",
                  type |-> "integer"],
                 [propertyName |-> "name", primary |-> FALSE, mode |-> "regular",
                  type |-> "string"] >>,
     Member |-> << [propertyName |-> "id", primary |-> TRUE, mode |-> "regular",
                    type |-> "integer"],
                   [propertyName |-> "name", primary |-> FALSE, mode |-> "regular",
                    type |-> "string"] >>]

\* RelationOptions.cascade as the set of operations it covers: `true` covers
\* every operation, an absent option none
CascadeAll == {"insert", "update", "remove", "soft-remove", "recover"}

relations ==
    [User |-> << [propertyName |-> "posts", relationType |-> "one-to-many", type |-> "Post",
                  inverseSide |-> "author", cascade |-> CascadeAll, joinColumn |-> FALSE] >>,
     Post |-> << [propertyName |-> "author", relationType |-> "many-to-one", type |-> "User",
                  inverseSide |-> "", cascade |-> {}, joinColumn |-> FALSE] >>,
     Log  |-> << [propertyName |-> "drafts", relationType |-> "one-to-many", type |-> "Draft",
                  inverseSide |-> "log", cascade |-> {}, joinColumn |-> FALSE],
                 [propertyName |-> "items", relationType |-> "one-to-many", type |-> "Post",
                  inverseSide |-> "log", cascade |-> {}, joinColumn |-> FALSE] >>,
     Tag  |-> << >>,
     Comment |-> << [propertyName |-> "author", relationType |-> "many-to-one",
                     type |-> "User", inverseSide |-> "", cascade |-> CascadeAll,
                     joinColumn |-> FALSE] >>,
     Doc  |-> << >>,
     Tally |-> << >>,
     Article |-> << [propertyName |-> "labels", relationType |-> "many-to-many",
                     type |-> "Label", inverseSide |-> "articles",
                     cascade |-> CascadeAll, joinColumn |-> FALSE] >>,
     Label |-> << [propertyName |-> "articles", relationType |-> "many-to-many",
                   type |-> "Article", inverseSide |-> "labels",
                   cascade |-> {}, joinColumn |-> FALSE] >>,
     Node |-> << [propertyName |-> "parent", relationType |-> "many-to-one",
                  type |-> "Node", inverseSide |-> "", cascade |-> CascadeAll,
                  joinColumn |-> FALSE],
                 [propertyName |-> "children", relationType |-> "one-to-many",
                  type |-> "Node", inverseSide |-> "parent", cascade |-> CascadeAll,
                  joinColumn |-> FALSE] >>,
     Team |-> << [propertyName |-> "members", relationType |-> "one-to-many",
                  type |-> "Member", inverseSide |-> "team", cascade |-> CascadeAll,
                  joinColumn |-> FALSE] >>,
     Member |-> << [propertyName |-> "mentor", relationType |-> "many-to-one",
                    type |-> "Team", inverseSide |-> "", cascade |-> {},
                    joinColumn |-> FALSE],
                   [propertyName |-> "team", relationType |-> "many-to-one",
                    type |-> "Team", inverseSide |-> "", cascade |-> {},
                    joinColumn |-> FALSE] >>]

\* MetadataArgsStorage.joinTables: the properties decorated with @JoinTable()
joinTables == {[target |-> "Article", propertyName |-> "labels"]}

\* MetadataArgsStorage.indices, by type
indices ==
    [t \in Types |->
        IF t = "Tag" THEN << [columns |-> <<"name">>, unique |-> TRUE] >> ELSE << >>]

\* every type registers one listener method for each lifecycle event
entityListeners ==
    {"BeforeInsert", "AfterInsert", "BeforeUpdate", "AfterUpdate",
     "BeforeRemove", "AfterRemove", "AfterLoad"}

findTable(target) == target \in Types

findColumns(target) == IF target \in Types THEN columns[target] ELSE <<>>

findRelations(target) == IF target \in Types THEN relations[target] ELSE <<>>

findIndices(target) == IF target \in Types THEN indices[target] ELSE <<>>

findListeners(target, type) ==
    IF target \in Types /\ type \in entityListeners THEN <<type>> ELSE <<>>

\* columns.find(c => c.options.primary): index of the column, 0 if none
RECURSIVE FindPrimary(_, _)
FindPrimary(cols, i) ==
    IF i > Len(cols) THEN 0
    ELSE IF cols[i].primary THEN i ELSE FindPrimary(cols, i + 1)

\* columns.find(c => c.mode === 'deleteDate'): index of the column, 0 if none
RECURSIVE FindDeleteDate(_, _)
FindDeleteDate(cols, i) ==
    IF i > Len(cols) THEN 0
    ELSE IF cols[i].mode = "deleteDate" THEN i ELSE FindDeleteDate(cols, i + 1)

HasDeleteDate(target) == FindDeleteDate(findColumns(target), 1) # 0

----------------------------------------------------------------------------
(* JavaScript objects used as maps: an insertion-ordered sequence of       *)
(* [key, val] pairs.                                                       *)

RECURSIVE KeyIndex(_, _, _)
KeyIndex(obj, key, i) ==
    IF i > Len(obj) THEN 0
    ELSE IF obj[i].key = key THEN i ELSE KeyIndex(obj, key, i + 1)

\* obj[key], undefined when the key is absent
Get(obj, key) ==
    LET i == KeyIndex(obj, key, 1) IN IF i = 0 THEN UNDEF ELSE obj[i].val

\* obj[key] = val
Put(obj, key, val) ==
    LET i == KeyIndex(obj, key, 1) IN
    IF i = 0 THEN Append(obj, [key |-> key, val |-> val])
    ELSE [obj EXCEPT ![i].val = val]

(* Criteria / filters as the callers pass them:                            *)
(*   absent : undefined or null                                            *)
(*   num    : a bare number n (User.update(1, ...), User.delete(1))        *)
(*   arr    : an array of ids (softRemove / recover only)                  *)
(*   obj    : { key: node, ... }, node a bare value (operator "") or an    *)
(*            operator node {operator, value}; list holds an array value   *)

Absent == [kind |-> "absent", n |-> 0, conds |-> <<>>, list |-> <<>>]

Num(n) == [kind |-> "num", n |-> n, conds |-> <<>>, list |-> <<>>]

Arr(list) == [kind |-> "arr", n |-> 0, conds |-> <<>>, list |-> list]

Obj(conds) == [kind |-> "obj", n |-> 0, conds |-> conds, list |-> <<>>]

Bare(key, v) == [key |-> key, operator |-> "", value |-> v, list |-> <<>>]

\* enum OperatorType: NotEqual and Not carry the same string
OperatorType ==
    [Equal |-> "EQUAL", NotEqual |-> "NOT", LessThan |-> "LT", GreaterThan |-> "GT",
     LessThanOrEqual |-> "LTE", GreaterThanOrEqual |-> "GTE", Between |-> "BETWEEN",
     Like |-> "LIKE", ILike |-> "ILIKE", In |-> "IN", IsNull |-> "IS_NULL",
     Raw |-> "RAW", Not |-> "NOT"]

In(key, list) == [key |-> key, operator |-> "IN", value |-> UNDEF, list |-> list]

\* { operator, value } of an operator that takes one value
Op(key, operator, v) == [key |-> key, operator |-> operator, value |-> v, list |-> <<>>]

Like(key, v) == Op(key, OperatorType.Like, v)

IsNull(key) == Op(key, OperatorType.IsNull, UNDEF)

Between(key, lo, hi) ==
    [key |-> key, operator |-> OperatorType.Between, value |-> UNDEF, list |-> <<lo, hi>>]

\* Not(value): value is a bare value or another operator's node, kept in inner
Not(key, inner) ==
    [key |-> key, operator |-> OperatorType.Not, value |-> UNDEF, list |-> <<>>,
     inner |-> inner]

\* typeof value.value === 'object' && value.value.operator
IsOperator(node) == node.operator # ""

\* the object { operator, value } as a positional value
AsObject(node) == [operator |-> node.operator, value |-> node.value, list |-> node.list]

\* `if (where)`: an object is truthy even when empty, a number unless it is 0
WhereTruthy(where) ==
    \/ where.kind \in {"obj", "arr"}
    \/ where.kind = "num" /\ where.n # 0

\* Object.keys(where): a number has no own enumerable keys
Keys(where) == IF where.kind = "obj" THEN where.conds ELSE <<>>

----------------------------------------------------------------------------
(* SqlGenerator.  A statement is                                           *)
(*   [kind, table, set, hasWhere, where, params]                           *)
(* set   : sequence of [col, expr], expr "?" (placeholder) or "NULL"       *)
(* where : sequence of [col, op, n], n the number of placeholders          *)
(* hasWhere records that the text holds the keyword WHERE, so that         *)
(* "... WHERE " followed by an empty clause stays visible.                 *)

NoStmt == [kind |-> "", table |-> "", set |-> <<>>, hasWhere |-> FALSE,
           where |-> <<>>, params |-> <<>>]

Gen(e, stmt) == [err |-> e, stmt |-> stmt]

\* one key of the where object: the condition and the values it pushes, by
\* the switch on value.operator in the order of its cases
condition(c) ==
    LET one(op, v) == [item |-> [col |-> c.key, op |-> op, n |-> 1], values |-> <<v>>]
        none(op) == [item |-> [col |-> c.key, op |-> op, n |-> 0], values |-> <<>>]
        many(op, l) == [item |-> [col |-> c.key, op |-> op, n |-> Len(l)], values |-> l]
    IN
    IF ~IsOperator(c) THEN one("=", c.value)
    ELSE IF c.operator = OperatorType.Like THEN one("LIKE", c.value)
    ELSE IF c.operator = OperatorType.In THEN many("IN", c.list)
    ELSE IF c.operator = OperatorType.NotEqual
    THEN (IF IsOperator(c.inner) THEN one("!=", AsObject(c.inner))
          ELSE one("!=", c.inner.value))
    ELSE IF c.operator = OperatorType.LessThan THEN one("<", c.value)
    ELSE IF c.operator = OperatorType.GreaterThan THEN one(">", c.value)
    ELSE IF c.operator = OperatorType.LessThanOrEqual THEN one("<=", c.value)
    ELSE IF c.operator = OperatorType.GreaterThanOrEqual THEN one(">=", c.value)
    ELSE IF c.operator = OperatorType.Between THEN many("BETWEEN", c.list)
    ELSE IF c.operator = OperatorType.IsNull THEN none("IS NULL")
    ELSE IF c.operator = OperatorType.Equal THEN one("=", c.value)
    ELSE IF c.operator = OperatorType.ILike THEN one("LIKE", c.value)
    ELSE IF c.operator = OperatorType.Raw THEN none("RAW")
    ELSE IF c.operator = OperatorType.Not
    THEN (IF IsOperator(c.inner) /\ c.inner.operator = OperatorType.In
          THEN many("NOT IN", c.inner.list)
          ELSE IF IsOperator(c.inner) /\ c.inner.operator = OperatorType.Like
          THEN one("NOT LIKE", c.inner.value)
          ELSE IF IsOperator(c.inner) /\ c.inner.operator = OperatorType.IsNull
          THEN none("IS NOT NULL")
          ELSE IF IsOperator(c.inner) THEN one("!=", AsObject(c.inner))
          ELSE one("!=", c.inner.value))
    ELSE one("=", AsObject(c))

RECURSIVE buildClause(_)
buildClause(conds) ==
    IF conds = <<>> THEN <<>>
    ELSE << condition(Head(conds)).item >> \o buildClause(Tail(conds))

RECURSIVE buildValues(_)
buildValues(conds) ==
    IF conds = <<>> THEN <<>>
    ELSE condition(Head(conds)).values \o buildValues(Tail(conds))

\* buildConditions(where): the clause and its positional values
buildConditions(where) ==
    [clause |-> buildClause(Keys(where)), values |-> buildValues(Keys(where))]

\* SqlGenerator.insert(metadata, columns, entity): columns is a sequence of
\* property names, entity the object whose properties are written
insert(metadata, cols, entity) ==
    Gen("none",
        [kind |-> "INSERT", table |-> metadata,
         set |-> [i \in 1..Len(cols) |-> [col |-> cols[i], expr |-> "?"]],
         hasWhere |-> FALSE, where |-> <<>>,
         params |-> [i \in 1..Len(cols) |-> Get(entity, cols[i])]])

\* columnNames.filter(col => !conflictPaths.includes(col))
RECURSIVE Without(_, _)
Without(cols, conflictPaths) ==
    IF cols = <<>> THEN <<>>
    ELSE (IF Head(cols) \in SeqToSet(conflictPaths) THEN <<>> ELSE <<Head(cols)>>)
         \o Without(Tail(cols), conflictPaths)

\* an upsert whose DO UPDATE list rewrites the conflict columns only
upsertKeepOld(metadata, cols, entity, conflictPaths) ==
    Gen("none",
        [kind |-> "INSERT", table |-> metadata,
         set |-> [i \in 1..Len(cols) |-> [col |-> cols[i], expr |-> "?"]],
         hasWhere |-> FALSE, where |-> <<>>,
         params |-> [i \in 1..Len(cols) |-> Get(entity, cols[i])],
         conflict |-> conflictPaths, doUpdate |-> conflictPaths])

\* SqlGenerator.upsert(metadata, columns, entity, conflictPaths): the insert
\* statement, with ON CONFLICT(conflict) DO UPDATE SET c = excluded.c for
\* each c of doUpdate when conflictPaths is not empty
upsert(metadata, cols, entity, conflictPaths) ==
    IF conflictPaths = <<>> THEN insert(metadata, cols, entity)
    ELSE Gen("none",
             [kind |-> "INSERT", table |-> metadata,
              set |-> [i \in 1..Len(cols) |-> [col |-> cols[i], expr |-> "?"]],
              hasWhere |-> FALSE, where |-> <<>>,
              params |-> [i \in 1..Len(cols) |-> Get(entity, cols[i])],
              conflict |-> conflictPaths, doUpdate |-> Without(cols, conflictPaths)])

\* SqlGenerator.update(metadata, values, where)
update(metadata, values, where) ==
    IF WhereTruthy(where)
    THEN Gen("none",
             [kind |-> "UPDATE", table |-> metadata,
              set |-> [i \in 1..Len(values) |-> [col |-> values[i].key, expr |-> "?"]],
              hasWhere |-> TRUE, where |-> buildConditions(where).clause,
              params |-> [i \in 1..Len(values) |-> values[i].val]
                         \o buildConditions(where).values])
    ELSE Gen("MissingWhereClause", NoStmt)

\* SqlGenerator.delete(metadata, where)
delete(metadata, where) ==
    IF WhereTruthy(where)
    THEN Gen("none",
             [kind |-> "DELETE", table |-> metadata, set |-> <<>>,
              hasWhere |-> TRUE, where |-> buildConditions(where).clause,
              params |-> buildConditions(where).values])
    ELSE Gen("MissingWhereClause", NoStmt)

\* softRemove without the safety rail: an absent filter yields an UPDATE of
\* the whole table
softRemoveUnguarded(metadata, where) ==
    LET i == FindDeleteDate(findColumns(metadata), 1) IN
    IF i = 0 THEN Gen("MissingSoftDeleteColumn", NoStmt)
    ELSE Gen("none",
             [kind |-> "UPDATE", table |-> metadata,
              set |-> << [col |-> findColumns(metadata)[i].propertyName, expr |-> "?"] >>,
              hasWhere |-> WhereTruthy(where), where |-> buildConditions(where).clause,
              params |-> buildConditions(where).values])

\* SqlGenerator.softRemove(metadata, where): the SET placeholder's value is
\* left for the caller to put in front of params
softRemove(metadata, where) ==
    LET i == FindDeleteDate(findColumns(metadata), 1) IN
    IF i = 0 THEN Gen("MissingSoftDeleteColumn", NoStmt)
    ELSE IF WhereTruthy(where)
    THEN Gen("none",
             [kind |-> "UPDATE", table |-> metadata,
              set |-> << [col |-> findColumns(metadata)[i].propertyName, expr |-> "?"] >>,
              hasWhere |-> TRUE, where |-> buildConditions(where).clause,
              params |-> buildConditions(where).values])
    ELSE Gen("MissingWhereClause", NoStmt)

\* SqlGenerator.recover(metadata, where)
recover(metadata, where) ==
    LET i == FindDeleteDate(findColumns(metadata), 1) IN
    IF i = 0 THEN Gen("MissingSoftDeleteColumn", NoStmt)
    ELSE IF WhereTruthy(where)
    THEN Gen("none",
             [kind |-> "UPDATE", table |-> metadata,
              set |-> << [col |-> findColumns(metadata)[i].propertyName, expr |-> "NULL"] >>,
              hasWhere |-> TRUE, where |-> buildConditions(where).clause,
              params |-> buildConditions(where).values])
    ELSE Gen("MissingWhereClause", NoStmt)

\* SqlGenerator.createIndex: CREATE [UNIQUE] INDEX IF NOT EXISTS ... ON <table>
createIndex(metadata, index) ==
    [NoStmt EXCEPT !.kind = IF index.unique THEN "CREATE UNIQUE INDEX" ELSE "CREATE INDEX",
                   !.table = metadata]

\* 'PRAGMA foreign_keys = ON'
PragmaForeignKeys == [NoStmt EXCEPT !.kind = "PRAGMA"]

\* relation.joinTableName || `${metadata.tableName}_${relatedMetadata.tableName}`
\* (no @JoinTable registered here gives a name)
junctionName(metadata, relatedMetadata) == metadata \o "_" \o relatedMetadata

\* an entry of the parenthesised list of a CREATE TABLE: a column
\* definition, or a table constraint
ColumnDef(name) == [def |-> "column", name |-> name]

ForeignKey(name, references) == [def |-> "foreign key", name |-> name, references |-> references]

\* SqlGenerator.createJunctionTable(metadata, relation, relatedMetadata)
createJunctionTable(metadata, relation, relatedMetadata) ==
    [kind |-> "CREATE TABLE", table |-> junctionName(metadata, relatedMetadata),
     set |-> <<>>, hasWhere |-> FALSE, where |-> <<>>, params |-> <<>>,
     defs |-> << ColumnDef(metadata \o "Id"), ColumnDef(relatedMetadata \o "Id"),
                 [def |-> "primary key", name |-> metadata \o "Id"],
                 ForeignKey(metadata \o "Id", metadata),
                 ForeignKey(relatedMetadata \o "Id", relatedMetadata) >>]

\* SqlGenerator.insertJunction: INSERT INTO <junctionTableName> VALUES (?, ?)
insertJunction(junctionTableName, val1, val2) ==
    [NoStmt EXCEPT !.kind = "INSERT VALUES", !.table = junctionTableName,
                   !.params = << val1, val2 >>]

\* the soft-delete filter applied whatever withDeleted says
softDeleteFilterAlways(metadata, withDeleted) ==
    LET i == FindDeleteDate(findColumns(metadata), 1) IN
    IF i # 0
    THEN << [col |-> findColumns(metadata)[i].propertyName, op |-> "IS NULL", n |-> 0] >>
    ELSE <<>>

\* the implicit soft-delete filter of SqlGenerator.select
softDeleteFilter(metadata, withDeleted) ==
    LET i == FindDeleteDate(findColumns(metadata), 1) IN
    IF ~withDeleted /\ i # 0
    THEN << [col |-> findColumns(metadata)[i].propertyName, op |-> "IS NULL", n |-> 0] >>
    ELSE <<>>

\* relations.find(r => r.propertyName === relationName): index, 0 if none
RECURSIVE FindRelation(_, _, _)
FindRelation(rels, name, i) ==
    IF i > Len(rels) THEN 0
    ELSE IF rels[i].propertyName = name THEN i ELSE FindRelation(rels, name, i + 1)

\* `${relation.propertyName}Id`, for the property names in use
fkNameOf(propertyName) == propertyName \o "Id"

owning(relation) ==
    \/ relation.relationType = "many-to-one"
    \/ relation.relationType = "one-to-one" /\ relation.joinColumn

\* createTable, lines 385-410: for every owning to-one relation, in
\* registration order, columnDefs.push of the foreign-key column and, when
\* the related type is registered, columnDefs.push of its FOREIGN KEY clause
RECURSIVE relationDefs(_)
relationDefs(rels) ==
    IF rels = <<>> THEN <<>>
    ELSE (IF owning(Head(rels))
          THEN IF findTable(Head(rels).type)
               THEN << ColumnDef(fkNameOf(Head(rels).propertyName)),
                       ForeignKey(fkNameOf(Head(rels).propertyName), Head(rels).type) >>
               ELSE << ColumnDef(fkNameOf(Head(rels).propertyName)) >>
          ELSE <<>>)
         \o relationDefs(Tail(rels))

\* SqlGenerator.createTable: CREATE TABLE IF NOT EXISTS <table> (columnDefs)
createTable(metadata) ==
    [kind |-> "CREATE TABLE", table |-> metadata,
     set |-> <<>>, hasWhere |-> FALSE, where |-> <<>>, params |-> <<>>,
     defs |-> [i \in 1..Len(findColumns(metadata)) |->
                 ColumnDef(findColumns(metadata)[i].propertyName)]
              \o relationDefs(findRelations(metadata))]

\* `, ${relatedTableName}.${colName} as ${relationName}_${colName}` for every
\* column of the related type
RECURSIVE relatedAliases(_, _, _)
relatedAliases(relationName, relatedClass, cols) ==
    IF cols = <<>> THEN <<>>
    ELSE << [alias |-> relationName \o "_" \o Head(cols).propertyName,
             table |-> relatedClass, col |-> Head(cols).propertyName] >>
         \o relatedAliases(relationName, relatedClass, Tail(cols))

\* the selected columns of the related tables (sql-generator.ts 45-70): a
\* relation that is not registered, or whose related type has no table,
\* adds none
RECURSIVE selectRelated(_, _)
selectRelated(metadata, names) ==
    IF names = <<>> THEN <<>>
    ELSE LET i == FindRelation(findRelations(metadata), Head(names), 1) IN
         (IF i # 0 /\ findTable(findRelations(metadata)[i].type)
          THEN relatedAliases(Head(names), findRelations(metadata)[i].type,
                              findColumns(findRelations(metadata)[i].type))
          ELSE <<>>)
         \o selectRelated(metadata, Tail(names))

\* the relation of the related type that points back: index, 0 if none
RECURSIVE matchingRelation(_, _, _, _)
matchingRelation(rels, metadata, oneToOne, i) ==
    IF i > Len(rels) THEN 0
    ELSE IF /\ rels[i].type = metadata
            /\ IF oneToOne
               THEN rels[i].relationType = "one-to-one" /\ rels[i].joinColumn
               ELSE rels[i].relationType = "many-to-one"
    THEN i
    ELSE matchingRelation(rels, metadata, oneToOne, i + 1)

\* one LEFT JOIN <table> ON <table>.<col> = <metadata>.<own>
\* (sql-generator.ts 86-141; no many-to-many relation is registered)
joinOf(metadata, relationName, relation) ==
    LET resolved == findTable(relation.type)
        relatedTableName == IF resolved THEN relation.type ELSE relationName \o "Table"
        inverse == IF resolved /\ relation.relationType \in {"one-to-many", "one-to-one"}
                   THEN matchingRelation(findRelations(relation.type), metadata,
                                         relation.relationType = "one-to-one", 1)
                   ELSE 0
        fkName == IF inverse # 0
                  THEN fkNameOf(findRelations(relation.type)[inverse].propertyName)
                  ELSE "foreignKey"
    IN IF owning(relation)
       THEN [table |-> relatedTableName, col |-> "id", own |-> fkNameOf(relationName)]
       ELSE [table |-> relatedTableName, col |-> fkName, own |-> "id"]

\* the joins (sql-generator.ts 75-144), one per registered relation requested
RECURSIVE joins(_, _)
joins(metadata, names) ==
    IF names = <<>> THEN <<>>
    ELSE LET i == FindRelation(findRelations(metadata), Head(names), 1) IN
         (IF i # 0 THEN << joinOf(metadata, Head(names), findRelations(metadata)[i]) >>
          ELSE <<>>)
         \o joins(metadata, Tail(names))

\* SqlGenerator.select(metadata, where, relations, undefined, undefined,
\* undefined, undefined, withDeleted).  columns: the aliased columns selected
\* besides <table>.*; qualified: how many leading conditions of the WHERE
\* clause name their column with its table
select(metadata, where, relationNames, withDeleted) ==
    LET whereClauses ==
            softDeleteFilter(metadata, withDeleted)
            \o (IF WhereTruthy(where) /\ Len(Keys(where)) > 0
                THEN buildConditions(where).clause ELSE <<>>)
        params == IF WhereTruthy(where) /\ Len(Keys(where)) > 0
                  THEN buildConditions(where).values ELSE <<>>
    IN Gen("none",
           [kind |-> "SELECT", table |-> metadata, set |-> <<>>,
            hasWhere |-> Len(whereClauses) > 0, where |-> whereClauses,
            params |-> params,
            columns |-> selectRelated(metadata, relationNames),
            joins |-> joins(metadata, relationNames),
            qualified |-> Len(softDeleteFilter(metadata, withDeleted))])

\* SqlGenerator.count(metadata, where): SELECT COUNT(*) as count FROM <table>,
\* with ` WHERE ${clause}` if (where)
count(metadata, where) ==
    Gen("none",
        [kind |-> "SELECT COUNT", table |-> metadata, set |-> <<>>,
         hasWhere |-> WhereTruthy(where),
         where |-> IF WhereTruthy(where) THEN buildConditions(where).clause ELSE <<>>,
         params |-> IF WhereTruthy(where) THEN buildConditions(where).values ELSE <<>>])

----------------------------------------------------------------------------
(* The execution transport: SqliteDriver.executeSql over an SQLite         *)
(* database that holds the registered tables, each with the columns        *)
(* createTable lays out, and the junction tables synchronize() creates.    *)
(* Every row carries                                                       *)
(* the columns id, name, deletedAt, version and the foreign keys authorId,  *)
(* parentId, mentorId, teamId; a column that is not in the table's schema  *)
(* stays NULL and naming it is an SQL error.  In a table created without a *)
(* primary column, id is the row's rowid.                                  *)

EmptyRow ==
    [id |-> NULL, name |-> NULL, deletedAt |-> NULL, authorId |-> NULL, version |-> NULL,
     parentId |-> NULL, mentorId |-> NULL, teamId |-> NULL]

\* column names of a table as SqlGenerator.createTable lays them out
Schema(t) ==
    {findColumns(t)[i].propertyName : i \in 1..Len(findColumns(t))}
    \cup {fkNameOf(findRelations(t)[i].propertyName) :
            i \in {j \in 1..Len(findRelations(t)) : owning(findRelations(t)[j])}}

RECURSIVE CountPlaceholders(_)
CountPlaceholders(set) ==
    IF set = <<>> THEN 0
    ELSE (IF Head(set).expr = "?" THEN 1 ELSE 0) + CountPlaceholders(Tail(set))

RECURSIVE CountWhere(_)
CountWhere(where) ==
    IF where = <<>> THEN 0 ELSE Head(where).n + CountWhere(Tail(where))

\* positional binding of the SET list / column list
RECURSIVE BindSet(_, _)
BindSet(set, params) ==
    IF set = <<>> THEN <<>>
    ELSE IF Head(set).expr = "?"
         THEN << [col |-> Head(set).col, val |-> Bind(Head(params))] >>
              \o BindSet(Tail(set), Tail(params))
         ELSE << [col |-> Head(set).col, val |-> NULL] >>
              \o BindSet(Tail(set), params)

\* positional binding of the WHERE clause
RECURSIVE BindWhere(_, _)
BindWhere(where, params) ==
    IF where = <<>> THEN <<>>
    ELSE << [col |-> Head(where).col, op |-> Head(where).op,
             vals |-> [i \in 1..Head(where).n |-> Bind(params[i])]] >>
         \o BindWhere(Tail(where), SubSeq(params, Head(where).n + 1, Len(params)))

\* SQL comparison: `= NULL` and `IN (NULL)` match nothing
Holds(row, cond) ==
    CASE cond.op = "IS NULL" -> row[cond.col] = NULL
      [] cond.op = "=" -> row[cond.col] # NULL /\ row[cond.col] = cond.vals[1]
      [] cond.op = "IN" -> row[cond.col] # NULL
                           /\ \E i \in 1..Len(cond.vals) : row[cond.col] = cond.vals[i]
      [] cond.op = "IS NOT NULL" -> row[cond.col] # NULL
      [] cond.op = "!=" -> row[cond.col] # NULL /\ cond.vals[1] # NULL
                           /\ row[cond.col] # cond.vals[1]
      [] cond.op = "<" -> row[cond.col] # NULL /\ cond.vals[1] # NULL
                          /\ row[cond.col] < cond.vals[1]
      [] cond.op = ">" -> row[cond.col] # NULL /\ cond.vals[1] # NULL
                          /\ row[cond.col] > cond.vals[1]
      [] cond.op = "<=" -> row[cond.col] # NULL /\ cond.vals[1] # NULL
                           /\ row[cond.col] <= cond.vals[1]
      [] cond.op = ">=" -> row[cond.col] # NULL /\ cond.vals[1] # NULL
                           /\ row[cond.col] >= cond.vals[1]
      [] OTHER -> FALSE

Matches(row, bound) == \A i \in 1..Len(bound) : Holds(row, bound[i])

RECURSIVE Assign(_, _)
Assign(row, bset) ==
    IF bset = <<>> THEN row
    ELSE Assign([row EXCEPT ![Head(bset).col] = Head(bset).val], Tail(bset))

\* the column sets an ON CONFLICT target may name: the primary key and the
\* columns of each unique index synchronize creates
UniqueKeys(t) ==
    {{"id"}} \cup {SeqToSet(findIndices(t)[i].columns) :
                     i \in {j \in 1..Len(findIndices(t)) : findIndices(t)[j].unique}}

\* the stored rows an inserted row collides with on the key columns `key`
\* (a NULL never collides)
Clash(rows, row, key) ==
    {r \in rows : \A c \in key : row[c] # NULL /\ r[c] = row[c]}

\* PRIMARY KEY, UNIQUE INDEX and (PRAGMA foreign_keys = ON) FOREIGN KEY
\* constraints
ConstraintsOk(d) ==
    /\ \A t \in Types : \A r1, r2 \in d[t] : r1.id = r2.id => r1 = r2
    /\ \A t \in Types : \A key \in UniqueKeys(t) : \A r \in d[t] : Clash(d[t], r, key) \subseteq {r}
    /\ \A t \in Types : \A r \in d[t] : r.id # NULL
    /\ \A t \in Types : \A i \in 1..Len(findRelations(t)) :
          LET rel == findRelations(t)[i] IN
          owning(rel) =>
              \A r \in d[t] :
                  \/ r[fkNameOf(rel.propertyName)] = NULL
                  \/ \E p \in d[rel.type] : p.id = r[fkNameOf(rel.propertyName)]

RECURSIVE SortById(_)
SortById(rows) ==
    IF rows = {} THEN <<>>
    ELSE LET r == CHOOSE x \in rows : \A y \in rows : x.id <= y.id
         IN <<r>> \o SortById(rows \ {r})

\* SELECT ... LEFT JOIN: what makes SQLite refuse to prepare the statement
JoinError(stmt) ==
    LET js == stmt.joins IN
    \* no such table
    \/ \E j \in 1..Len(js) : js[j].table \notin Types
    \* no such column
    \/ \E j \in 1..Len(js) : js[j].table \in Types /\ js[j].col \notin Schema(js[j].table)
    \/ \E j \in 1..Len(js) : js[j].own \notin Schema(stmt.table)
    \* a table that is in the FROM clause twice: ambiguous column name
    \/ \E j \in 1..Len(js) : js[j].table = stmt.table
    \/ \E j, k \in 1..Len(js) : j # k /\ js[j].table = js[k].table
    \* a condition that does not name its table, on a column two tables have
    \/ \E i \in (stmt.qualified + 1)..Len(stmt.where), j \in 1..Len(js) :
          js[j].table \in Types /\ stmt.where[i].col \in Schema(js[j].table)

\* the rows of the joined table that go with row r; LEFT JOIN gives one
\* all-NULL row when there is none
Related(d, r, j) ==
    LET m == {q \in d[j.table] : q[j.col] # NULL /\ q[j.col] = r[j.own]} IN
    IF m = {} THEN {EmptyRow} ELSE m

RECURSIVE Combos(_, _, _)
Combos(d, r, js) ==
    IF js = <<>> THEN {<<>>}
    ELSE UNION {{<<q>> \o rest : rest \in Combos(d, r, Tail(js))} :
                q \in Related(d, r, Head(js))}

RECURSIVE LexLess(_, _)
LexLess(a, b) ==
    IF a = <<>> \/ b = <<>> THEN FALSE
    ELSE \/ Head(a) < Head(b)
         \/ Head(a) = Head(b) /\ LexLess(Tail(a), Tail(b))

JoinKey(x) == <<x.base.id>> \o [i \in 1..Len(x.rel) |-> x.rel[i].id]

\* joined rows in rowid order of the tables, the primary table first
RECURSIVE SortJoined(_)
SortJoined(S) ==
    IF S = {} THEN <<>>
    ELSE LET x == CHOOSE m \in S : \A y \in S \ {m} : LexLess(JoinKey(m), JoinKey(y))
         IN <<x>> \o SortJoined(S \ {x})

\* the result row: <table>.* and the aliased columns of the joined tables
Project(x, stmt) ==
    LET A == {stmt.columns[i].alias : i \in 1..Len(stmt.columns)} IN
    [a \in DOMAIN x.base \cup A |->
        IF a \in A
        THEN LET c == stmt.columns[CHOOSE i \in 1..Len(stmt.columns) :
                                       stmt.columns[i].alias = a]
                 k == CHOOSE j \in 1..Len(stmt.joins) : stmt.joins[j].table = c.table
             IN x.rel[k][c.col]
        ELSE x.base[a]]

JoinedRowsOf(d, hit, stmt) ==
    LET S == UNION {{[base |-> r, rel |-> c] : c \in Combos(d, r, stmt.joins)} : r \in hit}
        sorted == SortJoined(S)
    IN [i \in 1..Len(sorted) |-> Project(sorted[i], stmt)]

\* the junction tables synchronize() created: one per many-to-many relation
\* that carries @JoinTable(); a junction row is the pair its two columns hold
Junctions ==
    UNION {{junctionName(jt.target, findRelations(jt.target)[i].type) :
              i \in {j \in 1..Len(findRelations(jt.target)) :
                       /\ findRelations(jt.target)[j].propertyName = jt.propertyName
                       /\ findRelations(jt.target)[j].relationType = "many-to-many"
                       /\ findTable(findRelations(jt.target)[j].type)}} :
           jt \in joinTables}

\* the two tables a junction table's foreign keys reference
JunctionEnds(name) ==
    CHOOSE e \in Types \X Types : junctionName(e[1], e[2]) = name

\* tables of the database
Stored == Types \cup Junctions

\* FOREIGN KEY (...) REFERENCES ...(id) ON DELETE CASCADE on both columns of
\* every junction table: the junction rows of a deleted row go with it
CascadeDelete(d) ==
    [t \in DOMAIN d |->
        IF t \in Junctions
        THEN {p \in d[t] : /\ \E r \in d[JunctionEnds(t)[1]] : r.id = p[1]
                           /\ \E r \in d[JunctionEnds(t)[2]] : r.id = p[2]}
        ELSE d[t]]

\* SQLite's grammar of CREATE TABLE: the column definitions, then the table
\* constraints; a column definition after a table constraint is a syntax
\* error
WellFormed(defs) ==
    \A i, j \in 1..Len(defs) : (i < j /\ defs[j].def = "column") => defs[i].def = "column"

NoRes == [insertId |-> 0, rowsAffected |-> 0, rows |-> <<>>]

Reply(d, rid, e, res) == [db |-> d, rowid |-> rid, err |-> e, res |-> res]

\* driver.executeSql(sql, params)
executeSql(d, rid, stmt) ==
    LET t == stmt.table
        k == CountPlaceholders(stmt.set)
        bset == BindSet(stmt.set, stmt.params)
        bwhere == BindWhere(stmt.where, SubSeq(stmt.params, k + 1, Len(stmt.params)))
        hit == {r \in d[t] : Matches(r, bwhere)}
        syntaxError ==
            \/ stmt.hasWhere /\ stmt.where = <<>>
            \/ stmt.kind \in {"INSERT", "UPDATE"} /\ stmt.set = <<>>
            \/ k + CountWhere(stmt.where) # Len(stmt.params)
            \/ \E i \in 1..Len(stmt.set) : stmt.set[i].col \notin Schema(t)
            \/ \E i \in 1..Len(stmt.where) : stmt.where[i].col \notin Schema(t)
            \/ /\ "conflict" \in DOMAIN stmt
               /\ \/ SeqToSet(stmt.conflict) \notin UniqueKeys(t)
                  \/ stmt.doUpdate = <<>>
            \/ "joins" \in DOMAIN stmt /\ JoinError(stmt)
    IN
    \* the tables and indices exist already: IF NOT EXISTS leaves them alone
    IF stmt.kind \in {"PRAGMA", "CREATE INDEX", "CREATE UNIQUE INDEX",
                     "BEGIN", "COMMIT", "ROLLBACK"}
    THEN Reply(d, rid, "none", NoRes)
    ELSE IF stmt.kind = "CREATE TABLE"
    THEN IF WellFormed(stmt.defs) THEN Reply(d, rid, "none", NoRes)
         ELSE Reply(d, rid, "TransportError", NoRes)
    ELSE IF stmt.kind = "INSERT VALUES"
    THEN \* no such table; column count; PRIMARY KEY of the pair; FOREIGN KEYs
         IF /\ t \in Junctions
            /\ Len(stmt.params) = 2
            /\ stmt.params \notin d[t]
            /\ \E r \in d[JunctionEnds(t)[1]] : r.id = stmt.params[1]
            /\ \E r \in d[JunctionEnds(t)[2]] : r.id = stmt.params[2]
         THEN Reply([d EXCEPT ![t] = @ \cup {stmt.params}], rid, "none",
                    [NoRes EXCEPT !.rowsAffected = 1])
         ELSE Reply(d, rid, "TransportError", NoRes)
    ELSE IF syntaxError THEN Reply(d, rid, "TransportError", NoRes)
    ELSE CASE stmt.kind = "SELECT" ->
                IF "joins" \in DOMAIN stmt /\ stmt.joins # <<>>
                THEN Reply(d, rid, "none", [NoRes EXCEPT !.rows = JoinedRowsOf(d, hit, stmt)])
                ELSE Reply(d, rid, "none", [NoRes EXCEPT !.rows = SortById(hit)])
           [] stmt.kind = "SELECT COUNT" ->
                Reply(d, rid, "none",
                      [NoRes EXCEPT !.rows = << [count |-> Cardinality(hit)] >>])
           [] stmt.kind = "DELETE" ->
                LET d2 == CascadeDelete([d EXCEPT ![t] = @ \ hit]) IN
                IF ConstraintsOk(d2)
                THEN Reply(d2, rid, "none", [NoRes EXCEPT !.rowsAffected = Cardinality(hit)])
                ELSE Reply(d, rid, "TransportError", NoRes)
           [] stmt.kind = "UPDATE" ->
                LET d2 == [d EXCEPT ![t] = (@ \ hit) \cup {Assign(r, bset) : r \in hit}] IN
                IF ConstraintsOk(d2) /\ Cardinality(d2[t]) = Cardinality(d[t])
                THEN Reply(d2, rid, "none", [NoRes EXCEPT !.rowsAffected = Cardinality(hit)])
                ELSE Reply(d, rid, "TransportError", NoRes)
           [] stmt.kind = "INSERT" ->
                LET given == Assign(EmptyRow, bset)
                    row == IF given.id = NULL THEN [given EXCEPT !.id = rid[t] + 1] ELSE given
                    d2 == [d EXCEPT ![t] = @ \cup {row}]
                    clash == IF "conflict" \in DOMAIN stmt
                             THEN Clash(d[t], row, SeqToSet(stmt.conflict)) ELSE {}
                    \* ON CONFLICT ... DO UPDATE: excluded is the row that was to
                    \* be inserted, its generated rowid included
                    d3 == [d EXCEPT ![t] =
                             (@ \ clash) \cup
                             {[c \in DOMAIN r |->
                                 IF c \in SeqToSet(stmt.doUpdate) THEN row[c] ELSE r[c]] :
                              r \in clash}]
                IN
                IF row.id > MaxId THEN Reply(d, rid, "Overflow", NoRes)
                ELSE IF clash # {}
                THEN IF ConstraintsOk(d3) /\ Cardinality(d3[t]) = Cardinality(d[t])
                     THEN Reply(d3, [rid EXCEPT ![t] = IF row.id > @ THEN row.id ELSE @],
                                "none", [NoRes EXCEPT !.rowsAffected = 1])
                     ELSE Reply(d, rid, "TransportError", NoRes)
                ELSE IF ConstraintsOk(d2) /\ Cardinality(d2[t]) = Cardinality(d[t]) + 1
                THEN Reply(d2, [rid EXCEPT ![t] = IF row.id > @ THEN row.id ELSE @], "none",
                           [NoRes EXCEPT !.insertId = row.id, !.rowsAffected = 1])
                ELSE Reply(d, rid, "TransportError", NoRes)
           [] OTHER -> Reply(d, rid, "TransportError", NoRes)

----------------------------------------------------------------------------
(* DataSource.  An operation runs on a world                               *)
(*   [db, rowid, ents, sent, hooks, err, res, fail, found]                 *)
(* and returns the world it leaves.  err # "none" is a thrown error that   *)
(* is unwinding the call: every later step of the operation is skipped.    *)
(* fail is the position, among the statements of the call, of the one the  *)
(* transport rejects for a reason of its own (0: none).                    *)

\* a DataSource on which initialize() has completed; the transport's trace
\* is not followed
Initialized ==
    /\ isInitialized = TRUE
    /\ options = [synchronize |-> FALSE]
    /\ wire = <<>>

World(fail) ==
    [db |-> db, rowid |-> rowid, ents |-> ents, sent |-> <<>>, hooks |-> <<>>,
     err |-> "none", res |-> NoRes, fail |-> fail, found |-> <<>>]

Throw(W, e) == IF W.err = "none" THEN [W EXCEPT !.err = e] ELSE W

\* DataSource.query(query, params): hand the statement to the driver
query(W, stmt) ==
    IF W.err # "none" THEN W
    ELSE LET W1 == [W EXCEPT !.sent = Append(@, stmt)] IN
         IF W.fail = Len(W1.sent) THEN [W1 EXCEPT !.err = "TransportError", !.res = NoRes]
         ELSE LET r == executeSql(W.db, W.rowid, stmt) IN
              [W1 EXCEPT !.db = r.db, !.rowid = r.rowid, !.err = r.err, !.res = r.res]

\* send what the generator produced, or throw what it threw
run(W, gen) == IF gen.err # "none" THEN Throw(W, gen.err) ELSE query(W, gen.stmt)

\* synchronize(), the indices of one table from the i-th on
RECURSIVE syncIndices(_, _, _)
syncIndices(W, table, i) ==
    IF i > Len(findIndices(table)) THEN W
    ELSE syncIndices(query(W, createIndex(table, findIndices(table)[i])), table, i + 1)

\* synchronize() with the junction table of every many-to-many relation
\* whose related type is registered
RECURSIVE syncJunctionsAll(_, _, _)
syncJunctionsAll(W, table, i) ==
    IF i > Len(findRelations(table)) THEN W
    ELSE syncJunctionsAll(
            IF /\ findRelations(table)[i].relationType = "many-to-many"
               /\ findTable(findRelations(table)[i].type)
            THEN query(W, createJunctionTable(table, findRelations(table)[i],
                                              findRelations(table)[i].type))
            ELSE W,
            table, i + 1)

\* synchronize(), lines 129-147: the junction table of every many-to-many
\* relation of the table that has a @JoinTable and a registered related type
RECURSIVE syncJunctions(_, _, _)
syncJunctions(W, table, i) ==
    IF i > Len(findRelations(table)) THEN W
    ELSE syncJunctions(
            IF /\ findRelations(table)[i].relationType = "many-to-many"
               /\ [target |-> table, propertyName |-> findRelations(table)[i].propertyName]
                     \in joinTables
               /\ findTable(findRelations(table)[i].type)
            THEN query(W, createJunctionTable(table, findRelations(table)[i],
                                              findRelations(table)[i].type))
            ELSE W,
            table, i + 1)

\* synchronize(), the registered tables from the i-th on
RECURSIVE syncTables(_, _)
syncTables(W, i) ==
    IF i > Len(tables) THEN W
    ELSE syncTables(
            syncJunctions(syncIndices(query(W, createTable(tables[i])), tables[i], 1),
                          tables[i], 1),
            i + 1)

\* DataSource.synchronize()
synchronize(W) == syncTables(W, 1)

\* DataSource.initialize(), after this.isInitialized = true
initialize(W, opts) ==
    LET W1 == query(W, PragmaForeignKeys) IN
    IF opts.synchronize THEN synchronize(W1) ELSE W1

\* the listeners invoked although the operation is already failing
callListenersAlways(W, s, type) ==
    LET ls == findListeners(W.ents[s].type, type) IN
    [W EXCEPT !.hooks = @ \o [i \in 1..Len(ls) |->
                                [slot |-> s, type |-> ls[i],
                                 after |-> Len(W.sent), id |-> W.ents[s].id]]]

\* for (const listener of storage.findListeners(target, type)) entity[listener]()
callListeners(W, s, type) ==
    IF W.err # "none" THEN W
    ELSE LET ls == findListeners(W.ents[s].type, type) IN
         [W EXCEPT !.hooks = @ \o [i \in 1..Len(ls) |->
                                     [slot |-> s, type |-> ls[i],
                                      after |-> Len(W.sent), id |-> W.ents[s].id]]]

columnNames(cols) == [i \in 1..Len(cols) |-> cols[i].propertyName]

\* DataSource.update(target, criteria, partialEntity)
dsUpdate(W, target, criteria, partialEntity) ==
    IF ~findTable(target) THEN Throw(W, "EntityNotRegistered")
    ELSE run(W, update(target, partialEntity, criteria))

\* DataSource.upsert(target, entity, conflictPaths): entity is a plain object
dsUpsert(W, target, entity, conflictPaths) ==
    IF ~findTable(target) THEN Throw(W, "EntityNotRegistered")
    ELSE run(W, upsert(target, columnNames(findColumns(target)), entity, conflictPaths))

\* delete that never looks for a soft-delete column
dsDeleteHard(W, target, criteria, now) ==
    IF ~findTable(target) THEN Throw(W, "EntityNotRegistered")
    ELSE run(W, delete(target, criteria))

\* DataSource.delete(target, criteria)
dsDelete(W, target, criteria, now) ==
    IF ~findTable(target) THEN Throw(W, "EntityNotRegistered")
    ELSE LET i == FindDeleteDate(findColumns(target), 1) IN
         IF i # 0
         THEN run(W, update(target,
                            << [key |-> findColumns(target)[i].propertyName, val |-> now] >>,
                            criteria))
         ELSE run(W, delete(target, criteria))

\* `typeof criteria === 'number'` -> { id: criteria };
\* Array.isArray(criteria) -> { id: { operator: 'IN', value: criteria } }
normalize(criteria) ==
    CASE criteria.kind = "num" -> Obj(<< Bare("id", criteria.n) >>)
      [] criteria.kind = "arr" -> Obj(<< In("id", criteria.list) >>)
      [] OTHER -> criteria

\* params.unshift(Date.now())
unshift(gen, now) ==
    IF gen.err # "none" THEN gen
    ELSE [gen EXCEPT !.stmt.params = <<now>> \o @]

\* DataSource.softRemove(target, criteria)
dsSoftRemove(W, target, criteria, now) ==
    IF ~findTable(target) THEN Throw(W, "EntityNotRegistered")
    ELSE run(W, unshift(softRemove(target, normalize(criteria)), now))

\* DataSource.recover(target, criteria)
dsRecover(W, target, criteria) ==
    IF ~findTable(target) THEN Throw(W, "EntityNotRegistered")
    ELSE run(W, recover(target, normalize(criteria)))

\* name of the primary-key property, "" when the type declares none
pkNameOf(target) ==
    LET i == FindPrimary(findColumns(target), 1) IN
    IF i = 0 THEN "" ELSE findColumns(target)[i].propertyName

\* remove that tests the primary key only after the BeforeRemove listeners
dsRemoveLateCheck(W, s, now) ==
    LET entity == W.ents[s]
        target == entity.type
        pkName == pkNameOf(target)
        W1 == callListeners(W, s, "BeforeRemove")
    IN
    IF pkName = "" \/ ~Truthy(entity[pkName]) THEN Throw(W1, "MissingPrimaryKey")
    ELSE callListeners(dsDelete(W1, target, Obj(<< Bare(pkName, entity[pkName]) >>), now),
                       s, "AfterRemove")

\* DataSource.remove(entity)
dsRemove(W, s, now) ==
    LET entity == W.ents[s]
        target == entity.type
        pkName == pkNameOf(target)
    IN
    IF ~findTable(target) THEN Throw(W, "EntityNotRegistered")
    ELSE IF pkName = "" \/ ~Truthy(entity[pkName]) THEN Throw(W, "MissingPrimaryKey")
    ELSE LET W1 == callListeners(W, s, "BeforeRemove")
             W2 == IF W1.err # "none" THEN W1
                   ELSE dsDelete(W1, target, Obj(<< Bare(pkName, entity[pkName]) >>), now)
         IN callListeners(W2, s, "AfterRemove")

----------------------------------------------------------------------------
(* Result materializer.  A raw row is a function from column alias to      *)
(* value.  A materialized entity is [type, cols, rels]: cols the scalar    *)
(* properties that were set, rels one [name, many, items] per initialised  *)
(* relation property (many: an array; otherwise items is <<>> for null or  *)
(* <<e>> for the assigned object).                                         *)

RowGet(row, alias) == IF alias \in DOMAIN row THEN row[alias] ELSE UNDEF

\* val.split(','), on strings as character sequences
RECURSIVE split(_)
split(chars) ==
    IF \A i \in 1..Len(chars) : chars[i] # ","
    THEN <<chars>>
    ELSE LET i == CHOOSE k \in 1..Len(chars) :
                      chars[k] = "," /\ \A j \in 1..(k - 1) : chars[j] # ","
         IN <<SubSeq(chars, 1, i - 1)>> \o split(SubSeq(chars, i + 1, Len(chars)))

\* col.options.transformer: set on the columns registered with one
HasTransformer(col) == "transformer" \in DOMAIN col /\ col.transformer

\* transformer.to(val) and transformer.from(val) of a registered transformer:
\* whatever the application supplied, so the application itself is kept
transformerTo(val) == [tag |-> "to", arg |-> val]

transformerFrom(val) == [tag |-> "from", arg |-> val]

\* DataSource.transformValue(col, val): the transformer's from() if the column
\* has one; otherwise a string read from a simple-array column is split at
\* its commas, the empty string giving [], and the integer, string and
\* datetime columns registered here give the raw value
transformValue(col, val) ==
    IF HasTransformer(col) THEN transformerFrom(val)
    ELSE IF col.type = "simple-array"
    THEN IF val.tag = "string"
         THEN (IF val.chars = <<>> THEN List(<<>>) ELSE List(split(val.chars)))
         ELSE val
    ELSE val

toMany(relation) == relation.relationType \in {"one-to-many", "many-to-many"}

\* for (const col of columns) { val = row[prefix + colName]; if (val !== undefined) ... }
RECURSIVE readColumns(_, _, _)
readColumns(cols, row, prefix) ==
    IF cols = <<>> THEN <<>>
    ELSE LET val == RowGet(row, prefix \o Head(cols).propertyName) IN
         (IF val # UNDEF
          THEN << [key |-> Head(cols).propertyName, val |-> transformValue(Head(cols), val)] >>
          ELSE <<>>)
         \o readColumns(Tail(cols), row, prefix)

\* index of the relation property `name` among an entity's rels, 0 if unset
RECURSIVE RelIndex(_, _, _)
RelIndex(rels, name, i) ==
    IF i > Len(rels) THEN 0
    ELSE IF rels[i].name = name THEN i ELSE RelIndex(rels, name, i + 1)

\* entity[name] = value
PutRel(rels, name, many, items) ==
    LET i == RelIndex(rels, name, 1)
        v == [name |-> name, many |-> many, items |-> items]
    IN IF i = 0 THEN Append(rels, v) ELSE [rels EXCEPT ![i] = v]

\* entity[relationName] = [] or null, for every requested relation that exists
RECURSIVE initRelations(_, _, _)
initRelations(rels, target, names) ==
    IF names = <<>> THEN rels
    ELSE LET i == FindRelation(findRelations(target), Head(names), 1) IN
         initRelations(
            IF i # 0 THEN PutRel(rels, Head(names), toMany(findRelations(target)[i]), <<>>)
            ELSE rels,
            target, Tail(names))

\* the primary column, or the first registered column: columns.find(...) || columns[0]
pkColumnOf(cols) ==
    LET i == FindPrimary(cols, 1) IN IF i = 0 THEN cols[1] ELSE cols[i]

\* a lookup that never finds the related object
existingNever(items, pk, relatedPkValue) == FALSE

\* entity[relationName].find(e => e[pk] === relatedPkValue) is defined
existing(items, pk, relatedPkValue) ==
    \E i \in 1..Len(items) : Get(items[i].cols, pk) = relatedPkValue

\* the relation loop of one row (data-source.ts 755-796) applied to the
\* row's entity; a related type without columns makes relatedPkCol.options
\* throw a TypeError
RECURSIVE decodeRelations(_, _, _, _)
decodeRelations(entity, target, row, names) ==
    IF names = <<>> \/ entity.type = "TypeError" THEN entity
    ELSE LET i == FindRelation(findRelations(target), Head(names), 1) IN
         IF i = 0 THEN decodeRelations(entity, target, row, Tail(names))
         ELSE LET relation == findRelations(target)[i]
                  relatedClass == relation.type
                  relatedColumns == findColumns(relatedClass)
              IN
              IF relatedColumns = <<>> THEN [entity EXCEPT !.type = "TypeError"]
              ELSE LET relatedPkName == pkColumnOf(relatedColumns).propertyName
                       relatedPkValue == RowGet(row, Head(names) \o "_" \o relatedPkName)
                       relatedEntity ==
                           [type |-> relatedClass,
                            cols |-> readColumns(relatedColumns, row, Head(names) \o "_"),
                            rels |-> <<>>]
                       j == RelIndex(entity.rels, Head(names), 1)
                       next ==
                           IF relatedPkValue = UNDEF \/ relatedPkValue = NULL THEN entity
                           ELSE IF toMany(relation)
                           THEN IF existing(entity.rels[j].items, relatedPkName, relatedPkValue)
                                THEN entity
                                ELSE [entity EXCEPT !.rels[j].items = Append(@, relatedEntity)]
                           ELSE [entity EXCEPT !.rels[j].items = <<relatedEntity>>]
                   IN decodeRelations(next, target, row, Tail(names))

\* position of pkValue among the keys of entityMap, 0 if absent
RECURSIVE MapIndex(_, _, _)
MapIndex(keys, pkValue, i) ==
    IF i > Len(keys) THEN 0
    ELSE IF keys[i] = pkValue THEN i ELSE MapIndex(keys, pkValue, i + 1)

\* results.forEach(row => ...): entityMap is the pair of sequences keys, vals
\* in insertion order
RECURSIVE mapRows(_, _, _, _)
mapRows(acc, target, rows, names) ==
    IF rows = <<>> \/ acc.err # "none" THEN acc
    ELSE LET row == Head(rows)
             cols == findColumns(target)
             pkName == pkColumnOf(cols).propertyName
             pkValue == RowGet(row, pkName)
         IN
         IF pkValue = UNDEF \/ pkValue = NULL THEN mapRows(acc, target, Tail(rows), names)
         ELSE LET k == MapIndex(acc.keys, pkValue, 1)
                  fresh == [type |-> target, cols |-> readColumns(cols, row, ""),
                            rels |-> initRelations(<<>>, target, names)]
                  acc1 == IF k = 0
                          THEN [acc EXCEPT !.keys = Append(@, pkValue), !.vals = Append(@, fresh)]
                          ELSE acc
                  k1 == IF k = 0 THEN Len(acc1.keys) ELSE k
                  entity == decodeRelations(acc1.vals[k1], target, row, names)
              IN IF entity.type = "TypeError"
                 THEN [acc1 EXCEPT !.err = "TypeError"]
                 ELSE mapRows([acc1 EXCEPT !.vals[k1] = entity], target, Tail(rows), names)

\* DataSource.mapResults(target, results, relations): [vals, err]
mapResults(target, rows, names) ==
    IF rows = <<>> THEN [keys |-> <<>>, vals |-> <<>>, err |-> "none"]
    ELSE IF findColumns(target) = <<>>
    THEN [keys |-> <<>>, vals |-> <<>>, err |-> "TypeError"]
    ELSE mapRows([keys |-> <<>>, vals |-> <<>>, err |-> "none"], target, rows, names)

\* DataSource.find(target, { where, relations, withDeleted }): the entities,
\* after the AfterLoad listeners ran on each
\* line 684 and mapResults' last lines: the entities are returned after the
\* AfterLoad listeners ran on each, or mapResults' error is thrown
findReturn(W, m) ==
    IF m.err # "none" THEN Throw(W, m.err)
    ELSE [W EXCEPT !.found = m.vals,
                   !.hooks = @ \o [i \in 1..Len(m.vals) |->
                                     [slot |-> 0, type |-> "AfterLoad"]]]

\* lines 682-684: the rows the transport returned are mapped
findMapped(W, target, relationNames) ==
    IF W.err # "none" THEN W
    ELSE findReturn(W, mapResults(target, W.res.rows, relationNames))

dsFind(W, target, where, relationNames, withDeleted) ==
    IF ~findTable(target) THEN Throw(W, "EntityNotRegistered")
    ELSE findMapped(run(W, select(target, where, relationNames, withDeleted)),
                    target, relationNames)

\* DataSource.count(target, where): result[0].count is left in res
dsCount(W, target, where) ==
    IF W.err # "none" THEN W
    ELSE IF ~findTable(target) THEN Throw(W, "EntityNotRegistered")
    ELSE run(W, count(target, where))

\* Promise.all: rejects with the rejection of find if find rejected
settled(findErr, W) == IF findErr # "none" THEN [W EXCEPT !.err = findErr] ELSE W

\* DataSource.findAndCount(target, options): find sends its SELECT, count
\* sends its own whatever became of find's, and both results are awaited
findAndCount(W, target, where, relationNames, withDeleted) ==
    settled(dsFind(W, target, where, relationNames, withDeleted).err,
            dsCount([dsFind(W, target, where, relationNames, withDeleted)
                        EXCEPT !.err = "none"],
                    target, where))

----------------------------------------------------------------------------
(* DataSource.save.  A heap entity is                                      *)
(*   [type, id, name, deletedAt, version, author, posts, labels, articles, *)
(*    parent, children, members, mentor, team]                             *)
(* author, parent, mentor, team: the slot of the referenced object, 0 when *)
(* unset; posts, labels, articles, children, members: the slots of the     *)
(* array's elements.                                                       *)

Transient(type, name) ==
    [type |-> type, id |-> UNDEF, name |-> name, deletedAt |-> UNDEF,
     version |-> UNDEF, author |-> 0, posts |-> <<>>, labels |-> <<>>,
     articles |-> <<>>, parent |-> 0, children |-> <<>>, members |-> <<>>,
     mentor |-> 0, team |-> 0]

\* relation.options?.cascade === true || cascade.includes(isUpdate ? 'update' : 'insert')
cascades(relation, isUpdate) ==
    (IF isUpdate THEN "update" ELSE "insert") \in relation.cascade

\* val.join(','), on strings as character sequences
RECURSIVE join(_)
join(items) ==
    IF items = <<>> THEN <<>>
    ELSE IF Len(items) = 1 THEN items[1]
    ELSE items[1] \o <<",">> \o join(Tail(items))

\* lines 261-269: an array held by a simple-array column is joined with
\* commas; the integer, string and datetime columns registered here are
\* written as they are
serializeValue(col, val) ==
    IF col.type = "simple-array"
    THEN IF val.tag = "array" THEN Str(join(val.items)) ELSE val
    ELSE val

\* lines 271-278: what is written for a serialized value val that is not
\* undefined
transformed(col, val) == IF HasTransformer(col) THEN transformerTo(val) ELSE val

\* lines 258-278: the columns whose value is not undefined
RECURSIVE serialize(_, _)
serialize(cols, entity) ==
    IF cols = <<>> THEN <<>>
    ELSE LET val == serializeValue(Head(cols), entity[Head(cols).propertyName]) IN
         (IF val # UNDEF
          THEN << [key |-> Head(cols).propertyName, val |-> transformed(Head(cols), val)] >>
          ELSE <<>>)
         \o serialize(Tail(cols), entity)

\* lines 280-289: entityToPersist[fkName] = relatedEntity.id
RECURSIVE injectForeignKeys(_, _, _, _)
injectForeignKeys(entityToPersist, rels, entity, heap) ==
    IF rels = <<>> THEN entityToPersist
    ELSE LET relation == Head(rels)
             relatedEntity == entity[relation.propertyName]
         IN injectForeignKeys(
                IF owning(relation) /\ relatedEntity # 0
                THEN Put(entityToPersist, fkNameOf(relation.propertyName), heap[relatedEntity].id)
                ELSE entityToPersist,
                Tail(rels), entity, heap)

\* lines 299-314: the declared columns, then each foreign key that has a value
RECURSIVE foreignKeyColumns(_, _)
foreignKeyColumns(rels, entityToPersist) ==
    IF rels = <<>> THEN <<>>
    ELSE (IF owning(Head(rels))
             /\ Get(entityToPersist, fkNameOf(Head(rels).propertyName)) # UNDEF
          THEN << fkNameOf(Head(rels).propertyName) >> ELSE <<>>)
         \o foreignKeyColumns(Tail(rels), entityToPersist)

RECURSIVE save(_, _, _)
RECURSIVE cascadeToOne(_, _, _, _, _)
RECURSIVE cascadeToMany(_, _, _, _, _)
RECURSIVE saveChildren(_, _, _, _, _)
RECURSIVE saveChildrenDetached(_, _, _, _, _)
RECURSIVE saveItems(_, _, _)
RECURSIVE insertJunctions(_, _, _, _)
RECURSIVE insertJunctionsThrowing(_, _, _, _)
RECURSIVE manyToMany(_, _, _, _, _)

\* a save that leaves the referenced objects alone
cascadeToNone(W, s, rels, isUpdate, depth) == W

\* lines 215-225: save the referenced object of each cascading owning to-one
cascadeToOne(W, s, rels, isUpdate, depth) ==
    IF rels = <<>> \/ W.err # "none" THEN W
    ELSE LET relation == Head(rels)
             relatedEntity == W.ents[s][relation.propertyName]
         IN cascadeToOne(
                IF cascades(relation, isUpdate) /\ owning(relation) /\ relatedEntity # 0
                THEN save(W, relatedEntity, depth + 1) ELSE W,
                s, Tail(rels), isUpdate, depth)

\* saveChildren without the assignment child[inversePropName] = entity
saveChildrenDetached(W, s, children, inversePropName, depth) ==
    IF children = <<>> \/ W.err # "none" THEN W
    ELSE saveChildrenDetached(save(W, Head(children), depth + 1),
                              s, Tail(children), inversePropName, depth)

\* lines 348-364: child[inversePropName] = entity; await this.save(child)
saveChildren(W, s, children, inversePropName, depth) ==
    IF children = <<>> \/ W.err # "none" THEN W
    ELSE saveChildren(
            save([W EXCEPT !.ents[Head(children)][inversePropName] = s],
                 Head(children), depth + 1),
            s, Tail(children), inversePropName, depth)

\* lines 341-388: the cascading one-to-many relations
cascadeToMany(W, s, rels, isUpdate, depth) ==
    IF rels = <<>> \/ W.err # "none" THEN W
    ELSE LET relation == Head(rels) IN
         cascadeToMany(
            IF cascades(relation, isUpdate) /\ relation.relationType = "one-to-many"
               /\ relation.inverseSide # ""
            THEN saveChildren(W, s, W.ents[s][relation.propertyName],
                              relation.inverseSide, depth)
            ELSE W,
            s, Tail(rels), isUpdate, depth)

\* lines 395-399: for (const item of relatedItems) await this.save(item)
saveItems(W, items, depth) ==
    IF items = <<>> \/ W.err # "none" THEN W
    ELSE saveItems(save(W, Head(items), depth + 1), Tail(items), depth)

\* try { await this.query(query, params) } catch (e) { }
suppressed(W) == [W EXCEPT !.err = "none"]

\* the junction INSERTs without the try / catch around them
insertJunctionsThrowing(W, s, junctionTableName, items) ==
    IF items = <<>> \/ W.err # "none" THEN W
    ELSE insertJunctionsThrowing(
            IF Truthy(W.ents[Head(items)].id)
               /\ Truthy(W.ents[s][IF pkNameOf(W.ents[s].type) # ""
                                   THEN pkNameOf(W.ents[s].type) ELSE "id"])
            THEN query(W, insertJunction(junctionTableName,
                                         W.ents[s][IF pkNameOf(W.ents[s].type) # ""
                                                   THEN pkNameOf(W.ents[s].type) ELSE "id"],
                                         W.ents[Head(items)].id))
            ELSE W,
            s, junctionTableName, Tail(items))

\* lines 415-427: one INSERT into the junction table for each item, when
\* relatedId && ownerId; whatever the query throws is caught and dropped
insertJunctions(W, s, junctionTableName, items) ==
    IF items = <<>> \/ W.err # "none" THEN W
    ELSE insertJunctions(
            IF Truthy(W.ents[Head(items)].id)
               /\ Truthy(W.ents[s][IF pkNameOf(W.ents[s].type) # ""
                                   THEN pkNameOf(W.ents[s].type) ELSE "id"])
            THEN suppressed(
                    query(W, insertJunction(junctionTableName,
                                            W.ents[s][IF pkNameOf(W.ents[s].type) # ""
                                                      THEN pkNameOf(W.ents[s].type) ELSE "id"],
                                            W.ents[Head(items)].id)))
            ELSE W,
            s, junctionTableName, Tail(items))

\* lines 401-429: the junction rows of one many-to-many relation, W the
\* world the cascaded saves of its items left
junctionRows(W, s, relation) ==
    IF W.err = "none" /\ W.ents[s][relation.propertyName] # <<>>
       /\ findTable(relation.type)
    THEN insertJunctions(W, s, junctionName(W.ents[s].type, relation.type),
                         W.ents[s][relation.propertyName])
    ELSE W

\* lines 391-432: the many-to-many relations
manyToMany(W, s, rels, isUpdate, depth) ==
    IF rels = <<>> \/ W.err # "none" THEN W
    ELSE manyToMany(
            IF Head(rels).relationType = "many-to-many"
            THEN junctionRows(
                    IF cascades(Head(rels), isUpdate)
                    THEN saveItems(W, W.ents[s][Head(rels).propertyName], depth)
                    ELSE W,
                    s, Head(rels))
            ELSE W,
            s, Tail(rels), isUpdate, depth)

\* lines 243-256: a version column becomes 1 on the insert path and
\* (entity[col] || 0) + 1 on the update path; no registered type declares a
\* create-date or update-date column
RECURSIVE stamp(_, _, _)
stamp(cols, entity, isUpdate) ==
    IF cols = <<>> THEN entity
    ELSE stamp(Tail(cols),
               IF Head(cols).mode = "version"
               THEN [entity EXCEPT ![Head(cols).propertyName] =
                        IF ~isUpdate THEN 1
                        ELSE (IF Truthy(@) THEN @ ELSE 0) + 1]
               ELSE entity,
               isUpdate)

\* lines 243-256 on the entity being saved
stampColumns(W, s, isUpdate) ==
    IF W.err # "none" THEN W
    ELSE [W EXCEPT !.ents[s] = stamp(findColumns(W.ents[s].type), @, isUpdate)]

\* lines 258-289: entityToPersist, the serialized columns and the foreign keys
toPersist(W, s) ==
    injectForeignKeys(serialize(findColumns(W.ents[s].type), W.ents[s]),
                      findRelations(W.ents[s].type), W.ents[s], W.ents)

\* lines 293-297: the UPDATE filtered by the primary key
saveUpdate(W, s, entityToPersist) ==
    run(W, update(W.ents[s].type, entityToPersist,
                  Obj(<< Bare(pkNameOf(W.ents[s].type),
                              W.ents[s][pkNameOf(W.ents[s].type)]) >>)))

\* lines 299-317: the INSERT of the declared columns and the foreign keys set
saveInsert(W, s, entityToPersist) ==
    run(W, insert(W.ents[s].type,
                  columnNames(findColumns(W.ents[s].type))
                      \o foreignKeyColumns(findRelations(W.ents[s].type), entityToPersist),
                  entityToPersist))

\* lines 319-321: if (res.insertId && pkName) entity[pkName] = res.insertId
assignInsertId(W, s) ==
    IF W.err = "none" /\ Truthy(W.res.insertId) /\ pkNameOf(W.ents[s].type) # ""
    THEN [W EXCEPT !.ents[s][pkNameOf(W.ents[s].type)] = W.res.insertId]
    ELSE W

\* lines 324-432: the After listeners, then the cascading one-to-many
\* relations, then the many-to-many relations
saveAfter(W, s, isUpdate, depth) ==
    manyToMany(
        cascadeToMany(callListeners(W, s, IF isUpdate THEN "AfterUpdate" ELSE "AfterInsert"),
                      s, findRelations(W.ents[s].type), isUpdate, depth),
        s, findRelations(W.ents[s].type), isUpdate, depth)

\* lines 258-322: serialize and execute, W the world the stamping left
saveStatement(W, s, isUpdate, depth) ==
    saveAfter(IF isUpdate THEN saveUpdate(W, s, toPersist(W, s))
              ELSE assignInsertId(saveInsert(W, s, toPersist(W, s)), s),
              s, isUpdate, depth)

\* lines 215-256: the cascade to the referenced objects, the Before
\* listeners and the stamping, all decided by isUpdate as computed on entry
saveClassified(W, s, isUpdate, depth) ==
    saveStatement(
        stampColumns(
            callListeners(cascadeToOne(W, s, findRelations(W.ents[s].type), isUpdate, depth),
                          s, IF isUpdate THEN "BeforeUpdate" ELSE "BeforeInsert"),
            s, isUpdate),
        s, isUpdate, depth)

\* DataSource.save(entity)
save(W, s, depth) ==
    IF W.err # "none" THEN W
    ELSE IF depth > MaxDepth THEN Throw(W, "StackOverflow")
    ELSE IF ~findTable(W.ents[s].type) THEN Throw(W, "EntityNotRegistered")
    ELSE saveClassified(W, s,
                        pkNameOf(W.ents[s].type) # ""
                            /\ Truthy(W.ents[s][pkNameOf(W.ents[s].type)]),
                        depth)

----------------------------------------------------------------------------
(* Top-level calls.  Each action is one call on the DataSource, run to     *)
(* completion: it records the call, what the call sent and invoked, and    *)
(* how it ended.                                                           *)

Call(op, target, criteria, slot, value, withDeleted) ==
    [op |-> op, target |-> target, criteria |-> criteria, slot |-> slot,
     value |-> value, withDeleted |-> withDeleted]

NoCall == Call("", "", Absent, 0, UNDEF, FALSE)

NoTx == [frames |-> <<>>, done |-> <<>>, last |-> <<>>, active |-> FALSE]

\* what a caller may pass as criteria to update / delete
CriteriaInputs ==
    {Absent, Obj(<<>>)}
    \cup {Num(n) : n \in 0..MaxId}
    \cup {Obj(<< Bare("id", n) >>) : n \in Ids}
    \cup {Obj(<< Bare("name", v) >>) : v \in Names}

\* ... and to softRemove / recover, which also take an array of ids
SoftCriteriaInputs == CriteriaInputs \cup {Arr([i \in 1..MaxId |-> i])}

\* the types a repository is obtained for: getRepository(target)
CrudTypes == {"User", "Log"}

Finish(W, c) ==
    /\ W.err # "Overflow"
    /\ db' = W.db
    /\ rowid' = W.rowid
    /\ ents' = W.ents
    /\ sent' = W.sent
    /\ hooks' = W.hooks
    /\ err' = W.err
    /\ found' = W.found
    /\ call' = c
    /\ UNCHANGED <<results, tx, repo, isInitialized, options, wire>>

InitCrud ==
    /\ Initialized
    /\ db = [t \in Stored |-> {}]
    /\ rowid = [t \in Types |-> 0]
    /\ repo \in CrudTypes
    /\ ents = [s \in Slots |-> Transient(repo, 1)]
    /\ call = NoCall
    /\ sent = <<>>
    /\ hooks = <<>>
    /\ err = "none"
    /\ found = <<>>
    /\ results = <<>>
    /\ tx = NoTx

\* the caller builds a new object in slot 1
New ==
    \E v \in Names :
        Finish([World(0) EXCEPT !.ents[1] = Transient(repo, v)],
               Call("new", repo, Absent, 1, v, FALSE))

\* the caller changes the data property of the object in slot 1
SetName ==
    \E v \in Names :
        Finish([World(0) EXCEPT !.ents[1].name = v],
               Call("set", ents[1].type, Absent, 1, v, FALSE))

Save ==
    Finish(save(World(0), 1, 0), Call("save", ents[1].type, Absent, 1, UNDEF, FALSE))

Update ==
    \E c \in CriteriaInputs, v \in Names :
        Finish(dsUpdate(World(0), repo, c, << [key |-> "name", val |-> v] >>),
               Call("update", repo, c, 0, v, FALSE))

Delete ==
    \E c \in CriteriaInputs, now \in Times :
        Finish(dsDelete(World(0), repo, c, now), Call("delete", repo, c, 0, now, FALSE))

SoftRemove ==
    \E c \in SoftCriteriaInputs, now \in Times :
        Finish(dsSoftRemove(World(0), repo, c, now),
               Call("softRemove", repo, c, 0, now, FALSE))

Recover ==
    \E c \in SoftCriteriaInputs :
        Finish(dsRecover(World(0), repo, c), Call("recover", repo, c, 0, UNDEF, FALSE))

Remove ==
    \E now \in Times :
        Finish(dsRemove(World(0), 1, now), Call("remove", ents[1].type, Absent, 1, now, FALSE))

Find ==
    \E withDeleted \in BOOLEAN :
        Finish(dsFind(World(0), repo, Absent, <<>>, withDeleted),
               Call("find", repo, Absent, 0, UNDEF, withDeleted))

\* the caller keeps one of the entities the last find returned, in slot 1
Load ==
    \E i \in 1..Len(found) :
        /\ ents' = [ents EXCEPT ![1] =
                      [type |-> found[i].type,
                       id |-> Get(found[i].cols, "id"),
                       name |-> Get(found[i].cols, "name"),
                       deletedAt |-> Get(found[i].cols, "deletedAt"),
                       version |-> UNDEF, author |-> 0, posts |-> <<>>,
                       labels |-> <<>>, articles |-> <<>>, parent |-> 0,
                       children |-> <<>>, members |-> <<>>, mentor |-> 0,
                       team |-> 0]]
        /\ call' = Call("load", found[i].type, Absent, 1, UNDEF, FALSE)
        /\ sent' = <<>>
        /\ hooks' = <<>>
        /\ err' = "none"
        /\ found' = <<>>
        /\ UNCHANGED <<db, rowid, results, tx, repo, isInitialized, options, wire>>

NextCrud ==
    \/ New
    \/ SetName
    \/ Save
    \/ Update
    \/ Delete
    \/ SoftRemove
    \/ Recover
    \/ Remove
    \/ Find
    \/ Load

SpecCrud == InitCrud /\ [][NextCrud]_vars

----------------------------------------------------------------------------
(* Counting (SpecCount).  The caller saves new objects of a type, removes  *)
(* the one saved last (a remove of a type with a deleteDate column marks   *)
(* its row), and calls findAndCount; results holds the count it returned,  *)
(* found the entities.                                                     *)

InitCount ==
    /\ Initialized
    /\ db = [t \in Stored |-> {}]
    /\ rowid = [t \in Types |-> 0]
    /\ repo \in CrudTypes
    /\ ents = [s \in Slots |-> Transient(repo, 1)]
    /\ call = NoCall
    /\ sent = <<>>
    /\ hooks = <<>>
    /\ err = "none"
    /\ found = <<>>
    /\ results = UNDEF
    /\ tx = NoTx

\* save(new entity)
SaveNew ==
    \E v \in Names :
        Finish(save([World(0) EXCEPT !.ents[1] = Transient(repo, v)], 1, 0),
               Call("save", repo, Absent, 1, v, FALSE))

\* remove(entity), of the object saved last
RemoveSaved ==
    \E now \in Times :
        Finish(dsRemove(World(0), 1, now),
               Call("remove", repo, Absent, 1, now, FALSE))

\* what findAndCount resolved with, or how it was rejected
Returned(W, c) ==
    /\ db' = W.db
    /\ rowid' = W.rowid
    /\ ents' = W.ents
    /\ sent' = W.sent
    /\ hooks' = W.hooks
    /\ err' = W.err
    /\ found' = W.found
    /\ call' = c
    /\ results' = IF W.err = "none" THEN W.res.rows[1].count ELSE UNDEF
    /\ UNCHANGED <<tx, repo, isInitialized, options, wire>>

\* findAndCount(target, { where, withDeleted })
FindAndCount ==
    \E where \in CriteriaInputs, withDeleted \in BOOLEAN :
        Returned(findAndCount(World(0), repo, where, <<>>, withDeleted),
                 Call("findAndCount", repo, where, 0, UNDEF, withDeleted))

NextCount ==
    \/ SaveNew
    \/ RemoveSaved
    \/ FindAndCount

SpecCount == InitCount /\ [][NextCount]_vars

\* C29: the count findAndCount returns equals the number of entities its
\* find returned for the same where (no skip, no take), also on a table
\* that holds soft-deleted rows
C29_CountMatchesFind ==
    (call.op = "findAndCount" /\ err = "none") => results = Len(found)

\* with withDeleted: true, and on a type without a deleteDate column
C29_CountMatchesUnfiltered ==
    (/\ call.op = "findAndCount"
     /\ err = "none"
     /\ call.withDeleted \/ softDeleteFilter(call.target, FALSE) = <<>>)
        => results = Len(found)

----------------------------------------------------------------------------
(* Cascading save (SpecCascade).  Slot 1 holds a User, the other slots     *)
(* Posts; the caller fills user.posts, saves the user or a post, and the   *)
(* transport may reject one statement of a save for a reason of its own.   *)

ParentSlot == 1

ChildSlots == Slots \ {ParentSlot}

InitCascade ==
    /\ Initialized
    /\ db = [t \in Stored |-> {}]
    /\ rowid = [t \in Types |-> 0]
    /\ repo = "User"
    /\ \E v \in Names :
         ents = [s \in Slots |-> Transient(IF s = ParentSlot THEN "User" ELSE "Post", v)]
    /\ call = NoCall
    /\ sent = <<>>
    /\ hooks = <<>>
    /\ err = "none"
    /\ found = <<>>
    /\ results = <<>>
    /\ tx = NoTx

\* user.posts.push(post)
Attach ==
    \E c \in ChildSlots :
        /\ Len(ents[ParentSlot].posts) < Cardinality(ChildSlots)
        /\ Finish([World(0) EXCEPT !.ents[ParentSlot].posts = Append(@, c)],
                  Call("attach", "User", Absent, c, UNDEF, FALSE))

\* user.posts = []
Detach ==
    /\ ents[ParentSlot].posts # <<>>
    /\ Finish([World(0) EXCEPT !.ents[ParentSlot].posts = <<>>],
              Call("detach", "User", Absent, ParentSlot, UNDEF, FALSE))

\* the caller changes the data property of the user
Rename ==
    \E s \in {ParentSlot}, v \in Names :
        /\ ents[s].name # v
        /\ Finish([World(0) EXCEPT !.ents[s].name = v],
                  Call("set", ents[s].type, Absent, s, v, FALSE))

\* save(user)
SaveParent ==
    \E fail \in 0..MaxSlots :
        Finish(save(World(fail), ParentSlot, 0),
               Call("save", "User", Absent, ParentSlot, fail, FALSE))

\* save(post)
SaveChild ==
    \E c \in ChildSlots :
        Finish(save(World(0), c, 0), Call("save", "Post", Absent, c, 0, FALSE))

NextCascade ==
    \/ Attach
    \/ Detach
    \/ Rename
    \/ SaveParent
    \/ SaveChild

SpecCascade == InitCascade /\ [][NextCascade]_vars

----------------------------------------------------------------------------
(* Materializing joined rows (SpecMap).  results is what the transport     *)
(* returned for a select of User joined with its posts: one raw row per    *)
(* (user, post) pair, a user without posts giving one row with null post   *)
(* columns; the caller maps it with or without the relation requested.     *)

JoinedRow(id, pid) ==
    [id |-> id, name |-> IF id = NULL THEN NULL ELSE 1, deletedAt |-> NULL,
     posts_id |-> pid, posts_name |-> IF pid = NULL THEN NULL ELSE 1]

JoinedRows == {JoinedRow(id, pid) : id \in Ids \cup {NULL}, pid \in Ids \cup {NULL}}

RowLists == UNION {[1..n -> JoinedRows] : n \in 0..MaxRows}

InitMap ==
    /\ Initialized
    /\ db = [t \in Stored |-> {}]
    /\ rowid = [t \in Types |-> 0]
    /\ repo = "User"
    /\ ents = [s \in Slots |-> Transient(repo, 1)]
    /\ call = NoCall
    /\ sent = <<>>
    /\ hooks = <<>>
    /\ err = "none"
    /\ found = <<>>
    /\ results \in RowLists
    /\ tx = NoTx

MapOutcome(m, op) ==
    /\ found' = m.vals
    /\ err' = m.err
    /\ call' = Call(op, "User", Absent, 0, UNDEF, FALSE)
    /\ UNCHANGED <<db, rowid, ents, sent, hooks, results, tx, repo, isInitialized, options, wire>>

\* mapResults(User, results, ['posts'])
MapJoined ==
    /\ call.op # "mapResults"
    /\ MapOutcome(mapResults("User", results, <<"posts">>), "mapResults")

\* mapResults(User, results)
MapPlain ==
    /\ call.op # "mapPlain"
    /\ MapOutcome(mapResults("User", results, <<>>), "mapPlain")

NextMap ==
    \/ MapJoined
    \/ MapPlain

SpecMap == InitMap /\ [][NextMap]_vars

----------------------------------------------------------------------------
(* Upsert (SpecUpsert).  The repository is that of Tag (name uniquely      *)
(* indexed) or of Log (no index); the caller upserts plain objects that    *)
(* give or omit id and name, on the conflict paths id or name, and deletes *)
(* rows by id.                                                             *)

UpsertTypes == {"Tag", "Log"}

\* the plain objects { id?, name? }
Entities ==
    {<<>>}
    \cup {<< [key |-> "id", val |-> n] >> : n \in Ids}
    \cup {<< [key |-> "name", val |-> v] >> : v \in Names}
    \cup {<< [key |-> "id", val |-> n], [key |-> "name", val |-> v] >> :
             n \in Ids, v \in Names}

ConflictPaths == {<<"id">>, <<"name">>}

UpsertArgs(entity, conflictPaths) ==
    [kind |-> "entity", entity |-> entity, paths |-> conflictPaths]

InitUpsert ==
    /\ Initialized
    /\ db = [t \in Stored |-> {}]
    /\ rowid = [t \in Types |-> 0]
    /\ repo \in UpsertTypes
    /\ ents = [s \in Slots |-> Transient(repo, 1)]
    /\ call = NoCall
    /\ sent = <<>>
    /\ hooks = <<>>
    /\ err = "none"
    /\ found = <<>>
    /\ results = <<>>
    /\ tx = NoTx

Upsert ==
    \E e \in Entities, paths \in ConflictPaths :
        Finish(dsUpsert(World(0), repo, e, paths),
               Call("upsert", repo, UpsertArgs(e, paths), 0, UNDEF, FALSE))

\* delete(type, { id: n })
DeleteById ==
    \E n \in Ids :
        Finish(dsDelete(World(0), repo, Obj(<< Bare("id", n) >>), 1),
               Call("delete", repo, Obj(<< Bare("id", n) >>), 0, 1, FALSE))

NextUpsert ==
    \/ Upsert
    \/ DeleteById

SpecUpsert == InitUpsert /\ [][NextUpsert]_vars

----------------------------------------------------------------------------
(* Array columns (SpecArray).  The object in slot 1 is a Note whose tags   *)
(* property, a @Column({ type: 'simple-array' }), holds an array of        *)
(* strings; save writes it into the TEXT column of the row and find reads  *)
(* the row back.                                                           *)

TagsColumn ==
    [propertyName |-> "tags", primary |-> FALSE, mode |-> "regular", type |-> "simple-array"]

InitArray ==
    /\ Initialized
    /\ db = [t \in Stored |-> {}]
    /\ rowid = [t \in Types |-> 0]
    /\ repo = "Note"
    /\ \E a \in Arrays : ents = [s \in Slots |-> [type |-> "Note", tags |-> List(a)]]
    /\ call = NoCall
    /\ sent = <<>>
    /\ hooks = <<>>
    /\ err = "none"
    /\ found = <<>>
    /\ results = <<>>
    /\ tx = NoTx

\* save(note): the row the transport stores
StoreTags ==
    /\ results = <<>>
    /\ results' = << [tags |-> serializeValue(TagsColumn, ents[1].tags)] >>
    /\ call' = Call("save", "Note", Absent, 1, UNDEF, FALSE)
    /\ UNCHANGED <<db, rowid, ents, sent, hooks, err, found, tx, repo, isInitialized, options, wire>>

\* find(Note): the stored row, materialized
ReadTags ==
    /\ results # <<>>
    /\ found = <<>>
    /\ found' = [i \in 1..Len(results) |->
                    [type |-> "Note", tags |-> transformValue(TagsColumn, results[i].tags)]]
    /\ call' = Call("find", "Note", Absent, 0, UNDEF, FALSE)
    /\ UNCHANGED <<db, rowid, ents, sent, hooks, err, results, tx, repo, isInitialized, options, wire>>

NextArray ==
    \/ StoreTags
    \/ ReadTags

SpecArray == InitArray /\ [][NextArray]_vars

----------------------------------------------------------------------------
(* Columns with a transformer (SpecTransform).  The object in slot 1 is a  *)
(* Memo with two properties whose columns register a transformer: title,   *)
(* a string column, and tags, a simple-array column.  save writes one of   *)
(* them into the row, results keeping the column and the value written;    *)
(* find reads the row back.                                                *)

TransformedColumns ==
    { [propertyName |-> "title", primary |-> FALSE, mode |-> "regular",
       type |-> "string", transformer |-> TRUE],
      [propertyName |-> "tags", primary |-> FALSE, mode |-> "regular",
       type |-> "simple-array", transformer |-> TRUE] }

InitTransform ==
    /\ Initialized
    /\ db = [t \in Stored |-> {}]
    /\ rowid = [t \in Types |-> 0]
    /\ repo = "Memo"
    /\ \E a \in Arrays, c \in Strings :
          ents = [s \in Slots |-> [type |-> "Memo", title |-> Str(c), tags |-> List(a)]]
    /\ call = NoCall
    /\ sent = <<>>
    /\ hooks = <<>>
    /\ err = "none"
    /\ found = <<>>
    /\ results = <<>>
    /\ tx = NoTx

\* save(memo): what is written for one of the columns
WriteColumn ==
    \E col \in TransformedColumns :
        /\ results = <<>>
        /\ results' = << [col |-> col,
                          raw |-> transformed(col,
                                     serializeValue(col, ents[1][col.propertyName]))] >>
        /\ call' = Call("save", "Memo", Absent, 1, UNDEF, FALSE)
        /\ UNCHANGED <<db, rowid, ents, sent, hooks, err, found, tx, repo,
                       isInitialized, options, wire>>

\* find(Memo): the value written, materialized
ReadColumn ==
    /\ results # <<>>
    /\ found = <<>>
    /\ found' = [i \in 1..Len(results) |->
                    [col |-> results[i].col,
                     val |-> transformValue(results[i].col, results[i].raw)]]
    /\ call' = Call("find", "Memo", Absent, 0, UNDEF, FALSE)
    /\ UNCHANGED <<db, rowid, ents, sent, hooks, err, results, tx, repo,
                   isInitialized, options, wire>>

NextTransform ==
    \/ WriteColumn
    \/ ReadColumn

SpecTransform == InitTransform /\ [][NextTransform]_vars

\* C24: for a column with a transformer, what save writes is transformer.to
\* applied to the value the property holds, and what the materializer
\* produces is transformer.from applied to the raw value of the row.
C24_TransformerOnly ==
    /\ results # <<>> =>
          results[1].raw = transformerTo(ents[1][results[1].col.propertyName])
    /\ found # <<>> => found[1].val = transformerFrom(results[1].raw)

----------------------------------------------------------------------------
(* Find with relations (SpecRel).  The database holds users, posts written *)
(* by them and logs; the caller finds User, Post or Log entities and asks  *)
(* for one relation by name: a registered one, or a name that is no        *)
(* relation of the type.                                                   *)

RelTypes == {"User", "Post", "Log"}

StoredRow(id, authorId) == [EmptyRow EXCEPT !.id = id, !.name = 1, !.authorId = authorId]

\* the last rowid a table handed out
MaxRowId(rows) == IF rows = {} THEN 0 ELSE CHOOSE n \in 0..MaxId :
                      (\E r \in rows : r.id = n) /\ \A r \in rows : r.id <= n

\* what the caller passes as options.relations
RelationInputs(target) ==
    {<<>>, <<"other">>}
    \cup {<<findRelations(target)[i].propertyName>> : i \in 1..Len(findRelations(target))}

FindCall(target, relationNames, withDeleted) ==
    [op |-> "find", target |-> target, relations |-> relationNames,
     withDeleted |-> withDeleted]

InitRel ==
    /\ Initialized
    /\ \E users \in SUBSET {StoredRow(1, NULL)},
          posts \in SUBSET {StoredRow(i, a) : i \in Ids, a \in {NULL, 1}},
          logs \in SUBSET {StoredRow(1, NULL)} :
          /\ db = [t \in Stored |-> IF t = "User" THEN users
                                   ELSE IF t = "Post" THEN posts
                                   ELSE IF t = "Log" THEN logs ELSE {}]
          /\ ConstraintsOk(db)
    /\ rowid = [t \in Types |-> MaxRowId(db[t])]
    /\ repo = "User"
    /\ ents = [s \in Slots |-> Transient(repo, 1)]
    /\ call = NoCall
    /\ sent = <<>>
    /\ hooks = <<>>
    /\ err = "none"
    /\ found = <<>>
    /\ results = <<>>
    /\ tx = NoTx

\* find(target, { relations, withDeleted })
FindRelated ==
    \E target \in RelTypes, withDeleted \in BOOLEAN :
        \E relationNames \in RelationInputs(target) :
            Finish(dsFind(World(0), target, Absent, relationNames, withDeleted),
                   FindCall(target, relationNames, withDeleted))

NextRel == FindRelated

SpecRel == InitRel /\ [][NextRel]_vars

\* the requested relation is registered and its related type has no table
Unresolved(target, name) ==
    LET i == FindRelation(findRelations(target), name, 1) IN
    i # 0 /\ ~findTable(findRelations(target)[i].type)

\* C15: a find that requests a relation whose related type resolves to no
\* registered table treats the relation as unresolved and completes: it
\* raises no error.
C15_UnresolvedRelationTolerated ==
    (/\ call.op = "find"
     /\ \E i \in 1..Len(call.relations) : Unresolved(call.target, call.relations[i]))
        => err = "none"

\* the requested relation is an inverse side (one-to-many, or one-to-one
\* without joinColumn) of a registered type that has no relation pointing
\* back
NoInverse(target, name) ==
    LET i == FindRelation(findRelations(target), name, 1) IN
    /\ i # 0
    /\ ~owning(findRelations(target)[i])
    /\ findRelations(target)[i].relationType \in {"one-to-many", "one-to-one"}
    /\ findTable(findRelations(target)[i].type)
    /\ matchingRelation(findRelations(findRelations(target)[i].type), target,
                        findRelations(target)[i].relationType = "one-to-one", 1) = 0

\* C16: a find that requests an inverse-side relation without a matching
\* inverse relation fails with a configuration error, and no SELECT that
\* joins on the placeholder column foreignKey is sent to the transport.
C16_PlaceholderJoinNotSent ==
    (/\ call.op = "find"
     /\ \E i \in 1..Len(call.relations) : NoInverse(call.target, call.relations[i]))
        => /\ err = "ConfigurationError"
           /\ \A k \in 1..Len(sent) : \A j \in 1..Len(sent[k].joins) :
                 sent[k].joins[j].col # "foreignKey"

----------------------------------------------------------------------------
(* The filter compiler (SpecCond).  The caller passes a where object of    *)
(* one or two keys, each a bare value or a find operator, to               *)
(* SqlGenerator.buildConditions; results holds what it returned.           *)

IdLists == UNION {[1..n -> Ids] : n \in 0..MaxId}

\* what Not can wrap: a bare value, In, Like, IsNull
InnerNodes(key) ==
    {Bare(key, v) : v \in Names}
    \cup {In(key, l) : l \in IdLists}
    \cup {Like(key, v) : v \in Names}
    \cup {IsNull(key)}

CompareOperators ==
    {OperatorType.Equal, OperatorType.LessThan, OperatorType.GreaterThan,
     OperatorType.LessThanOrEqual, OperatorType.GreaterThanOrEqual, OperatorType.ILike}

Nodes(key) ==
    InnerNodes(key)
    \cup {Not(key, n) : n \in InnerNodes(key)}
    \cup {Op(key, o, v) : o \in CompareOperators, v \in Names}
    \cup {Between(key, lo, hi) : lo \in Names, hi \in Names}

WhereInputs ==
    {Obj(<<n>>) : n \in Nodes("id") \cup Nodes("name")}
    \cup {Obj(<<n, m>>) : n \in Nodes("id"), m \in {Bare("name", v) : v \in Names}}

InitCond ==
    /\ Initialized
    /\ db = [t \in Stored |-> {}]
    /\ rowid = [t \in Types |-> 0]
    /\ repo = "User"
    /\ ents = [s \in Slots |-> Transient(repo, 1)]
    /\ call = NoCall
    /\ sent = <<>>
    /\ hooks = <<>>
    /\ err = "none"
    /\ found = <<>>
    /\ results = <<>>
    /\ tx = NoTx

\* SqlGenerator.buildConditions(where)
BuildConditions ==
    \E where \in WhereInputs :
        /\ call' = [op |-> "buildConditions", where |-> where]
        /\ results' = <<buildConditions(where)>>
        /\ UNCHANGED <<db, rowid, ents, sent, hooks, err, found, tx, repo,
                       isInitialized, options, wire>>

NextCond == BuildConditions

SpecCond == InitCond /\ [][NextCond]_vars

IsNot(c) == "inner" \in DOMAIN c

\* the condition and the values a Not node has to compile to
NotCompiled(c) ==
    IF c.inner.operator = OperatorType.In
    THEN [item |-> [col |-> c.key, op |-> "NOT IN", n |-> Len(c.inner.list)],
          values |-> c.inner.list]
    ELSE IF c.inner.operator = OperatorType.Like
    THEN [item |-> [col |-> c.key, op |-> "NOT LIKE", n |-> 1], values |-> <<c.inner.value>>]
    ELSE IF c.inner.operator = OperatorType.IsNull
    THEN [item |-> [col |-> c.key, op |-> "IS NOT NULL", n |-> 0], values |-> <<>>]
    ELSE [item |-> [col |-> c.key, op |-> "!=", n |-> 1], values |-> <<c.inner.value>>]

\* C17: the filter compiler turns Not(In(list)) into <col> NOT IN (?, ...)
\* with the list elements, Not(Like(p)) into <col> NOT LIKE ? with p,
\* Not(IsNull()) into <col> IS NOT NULL with no value, and Not(v) for a bare
\* v into <col> != ? with v.
C17_NotCompiles ==
    call.op = "buildConditions" =>
        \A i \in 1..Len(call.where.conds) :
            IsNot(call.where.conds[i]) =>
                /\ results[1].clause[i] = NotCompiled(call.where.conds[i]).item
                /\ Len(call.where.conds) = 1 =>
                       results[1].values = NotCompiled(call.where.conds[i]).values

----------------------------------------------------------------------------
(* Saving one instance (SpecSave).  Slot 1 holds an object of a type       *)
(* without cascading to-many relations: a Log, or a Comment whose author   *)
(* (many-to-one, cascade: true) may reference the User of slot 2.  The     *)
(* caller built the object with or without a value in id, changes its      *)
(* name, sets or clears comment.author and saves either object; the        *)
(* transport may reject one statement of a save for a reason of its own.   *)

SaveTypes == {"Log", "Comment"}

EntitySlot == 1

AuthorSlot == 2

\* what the caller may have put into the primary-key property
IdInputs == {UNDEF, NULL} \cup (0..MaxId)

InitSave ==
    /\ Initialized
    /\ db = [t \in Stored |-> {}]
    /\ rowid = [t \in Types |-> 0]
    /\ repo \in SaveTypes
    /\ \E v \in IdInputs :
          ents = [s \in Slots |->
                    IF s = EntitySlot THEN [Transient(repo, 1) EXCEPT !.id = v]
                    ELSE Transient("User", 1)]
    /\ call = NoCall
    /\ sent = <<>>
    /\ hooks = <<>>
    /\ err = "none"
    /\ found = <<>>
    /\ results = <<>>
    /\ tx = NoTx

\* entity.name = v
AssignName ==
    \E v \in Names :
        /\ ents[EntitySlot].name # v
        /\ Finish([World(0) EXCEPT !.ents[EntitySlot].name = v],
                  Call("set", repo, Absent, EntitySlot, v, FALSE))

\* comment.author = user, or comment.author = undefined
AssignAuthor ==
    \E a \in {0, AuthorSlot} :
        /\ repo = "Comment"
        /\ ents[EntitySlot].author # a
        /\ Finish([World(0) EXCEPT !.ents[EntitySlot].author = a],
                  Call("refer", repo, Absent, EntitySlot, a, FALSE))

\* save(entity); the call records the id the entity held when it was made
SaveOne ==
    \E s \in {EntitySlot, AuthorSlot}, fail \in 0..2 :
        Finish(save(World(fail), s, 0),
               Call("save", ents[s].type, Absent, s, ents[s].id, FALSE))

NextSave ==
    \/ AssignName
    \/ AssignAuthor
    \/ SaveOne

SpecSave == InitSave /\ [][NextSave]_vars

IsInsert(stmt, table) == stmt.kind = "INSERT" /\ stmt.table = table

\* the value statement stmt binds to column col (UNDEF when it names no such column)
Bound(stmt, col) ==
    IF \E i \in 1..Len(stmt.set) : stmt.set[i].col = col
    THEN stmt.params[CHOOSE i \in 1..Len(stmt.set) : stmt.set[i].col = col]
    ELSE UNDEF

\* position in sent of the statement on the saved entity's own table, 0 if
\* the save did not get to send it
OwnIndex ==
    IF \E k \in 1..Len(sent) : sent[k].table = call.target
    THEN CHOOSE k \in 1..Len(sent) : sent[k].table = call.target
    ELSE 0

\* C18: save takes the insert path exactly when the primary-key property
\* holds no value (undefined or null); a successful insert leaves the
\* transport's insert identifier, the id of the new row, in the primary-key
\* property; an update is filtered by the primary key the entity held.
C18_SaveClassifies ==
    (call.op = "save" /\ err = "none") =>
        LET own == sent[OwnIndex] IN
        /\ OwnIndex # 0
        /\ own.kind \in {"INSERT", "UPDATE"}
        /\ own.kind = "INSERT" <=> call.value \in {UNDEF, NULL}
        /\ own.kind = "INSERT" =>
              /\ ents[call.slot].id \in Ids
              /\ \E r \in db[call.target] : r.id = ents[call.slot].id
        /\ own.kind = "UPDATE" =>
              /\ own.where = << [col |-> "id", op |-> "=", n |-> 1] >>
              /\ own.params[Len(own.params)] = call.value

\* C19: within the save of one entity the Before listeners are invoked
\* before its INSERT/UPDATE is sent and the After listeners after the
\* statement returned, on insert with the new row's key already in the
\* entity; the insert path invokes only BeforeInsert/AfterInsert, the update
\* path only BeforeUpdate/AfterUpdate; when the statement fails no After
\* listener is invoked.
C19_ListenerOrder ==
    call.op = "save" =>
        LET k == OwnIndex
            own == {i \in 1..Len(hooks) : hooks[i].slot = call.slot}
            path == IF k # 0 /\ sent[k].kind = "INSERT" THEN "Insert" ELSE "Update"
            before == {i \in own : hooks[i].type \in {"BeforeInsert", "BeforeUpdate"}}
            after == {i \in own : hooks[i].type \in {"AfterInsert", "AfterUpdate"}}
        IN
        /\ own = before \cup after
        /\ k = 0 => after = {}
        /\ k # 0 =>
              /\ \A i \in before : hooks[i].type = "Before" \o path
              /\ \A i \in after : hooks[i].type = "After" \o path
              /\ before # {}
              /\ \A i \in before : hooks[i].after < k
              /\ \A i \in after : hooks[i].after >= k /\ \A j \in before : j < i
              /\ err = "none" =>
                    /\ after # {}
                    /\ path = "Insert" =>
                          \A i \in after :
                             /\ hooks[i].id = ents[call.slot].id
                             /\ \E r \in db[call.target] : r.id = hooks[i].id
              /\ err # "none" => after = {}

\* a comment and the unsaved user it references were inserted by one save:
\* each object's BeforeInsert ran before its INSERT and its AfterInsert after
C19_Witness ==
    /\ call.op = "save" /\ call.slot = EntitySlot /\ err = "none"
    /\ Len(sent) = 2 /\ IsInsert(sent[1], "User") /\ IsInsert(sent[2], "Comment")
    /\ [i \in 1..Len(hooks) |-> hooks[i].type]
          = <<"BeforeInsert", "AfterInsert", "BeforeInsert", "AfterInsert">>

\* C20: a save of a comment whose author, an owning many-to-one relation
\* with cascade: true, references a user without primary key sends the
\* user's INSERT before the comment's own statement, and the comment's
\* statement binds the user's newly assigned primary key as authorId, which
\* the comment's row then holds.
C20_Step ==
    (/\ call'.op = "save" /\ call'.slot = EntitySlot /\ err' = "none"
     /\ ents[EntitySlot].type = "Comment"
     /\ ents[EntitySlot].author = AuthorSlot
     /\ ents[AuthorSlot].id \in {UNDEF, NULL})
        => /\ Len(sent') = 2
           /\ IsInsert(sent'[1], "User")
           /\ sent'[2].table = "Comment"
           /\ ents'[AuthorSlot].id \in Ids
           /\ ents'[AuthorSlot].id = rowid'["User"]
           /\ rowid'["User"] = rowid["User"] + 1
           /\ Bound(sent'[2], "authorId") = ents'[AuthorSlot].id
           /\ \E r \in db'["User"] : r.id = ents'[AuthorSlot].id
           /\ \A r \in db'["Comment"] :
                 r.id = ents'[EntitySlot].id => r.authorId = ents'[AuthorSlot].id

C20_ReferencedSavedFirst == [][C20_Step]_vars

\* a stored comment was re-saved after an unsaved user became its author:
\* the user's INSERT and then the comment's UPDATE with the new authorId
C20_Witness ==
    /\ call.op = "save" /\ call.slot = EntitySlot /\ err = "none"
    /\ Len(sent) = 2
    /\ IsInsert(sent[1], "User")
    /\ sent[2].kind = "UPDATE" /\ sent[2].table = "Comment"
    /\ Bound(sent[2], "authorId") = ents[AuthorSlot].id
    /\ ents[AuthorSlot].id \in Ids

----------------------------------------------------------------------------
(* Version columns (SpecVersion).  Slot 1 holds a new object, no property  *)
(* of it set, of a type with a @VersionColumn: a Doc, or a Tally, which    *)
(* declares no primary column.  The caller saves the instance again and    *)
(* again and may set its name in between; the transport may reject the     *)
(* statement of a save.  results counts the saves made and records whether *)
(* one of them failed.                                                     *)

VersionTypes == {"Doc", "Tally"}

InitVersion ==
    /\ Initialized
    /\ db = [t \in Stored |-> {}]
    /\ rowid = [t \in Types |-> 0]
    /\ repo \in VersionTypes
    /\ ents = [s \in Slots |-> Transient(repo, UNDEF)]
    /\ call = NoCall
    /\ sent = <<>>
    /\ hooks = <<>>
    /\ err = "none"
    /\ found = <<>>
    /\ results = [saves |-> 0, failed |-> FALSE]
    /\ tx = NoTx

\* the outcome of one more save of the instance
Counted(W, c) ==
    /\ W.err # "Overflow"
    /\ db' = W.db
    /\ rowid' = W.rowid
    /\ ents' = W.ents
    /\ sent' = W.sent
    /\ hooks' = W.hooks
    /\ err' = W.err
    /\ found' = W.found
    /\ call' = c
    /\ results' = [saves |-> results.saves + 1,
                   failed |-> results.failed \/ W.err # "none"]
    /\ UNCHANGED <<tx, repo, isInitialized, options, wire>>

\* entity.name = v
EditName ==
    \E v \in Names :
        /\ ents[EntitySlot].name # v
        /\ Finish([World(0) EXCEPT !.ents[EntitySlot].name = v],
                  Call("set", repo, Absent, EntitySlot, v, FALSE))

\* save(entity)
SaveVersioned ==
    \E fail \in 0..1 :
        /\ results.saves < MaxVersion
        /\ Counted(save(World(fail), EntitySlot, 0),
                   Call("save", repo, Absent, EntitySlot, ents[EntitySlot].id, FALSE))

NextVersion ==
    \/ EditName
    \/ SaveVersioned

SpecVersion == InitVersion /\ [][NextVersion]_vars

\* C21 as stated: a version column is 1 after an insert-path save and
\* previous+1 after an update-path save, so after k successful saves in a
\* row of an instance that started Transient its version is exactly k.
C21_VersionCounts ==
    (results.saves > 0 /\ ~results.failed) =>
        ents[EntitySlot].version = results.saves

\* The same for the types that declare a primary column only: after k
\* successful saves in a row of an instance that started Transient, the
\* version held by the instance is exactly k, the last statement wrote k,
\* and so does the instance's row hold it.
C21_VersionCountsKeyed ==
    (pkNameOf(repo) # "" /\ results.saves > 0 /\ ~results.failed) =>
        /\ ents[EntitySlot].version = results.saves
        /\ \E r \in db[repo] :
              r.id = ents[EntitySlot].id /\ r.version = results.saves
        /\ call.op = "save" =>
              /\ Len(sent) = 1
              /\ Bound(sent[1], "version") = results.saves
              /\ sent[1].kind = IF results.saves = 1 THEN "INSERT" ELSE "UPDATE"

----------------------------------------------------------------------------
(* Cascades along a cycle of relations (SpecGraph).  Every slot holds a    *)
(* Node; Node.children (one-to-many, cascade: true) has the inverse side   *)
(* Node.parent (many-to-one, cascade: true).  The caller sets parent and   *)
(* children of new objects and saves any of them.  A save whose nesting    *)
(* of save() calls passes MaxDepth is one that never returns: the model    *)
(* ends it with "StackOverflow".                                           *)

InitGraph ==
    /\ Initialized
    /\ db = [t \in Stored |-> {}]
    /\ rowid = [t \in Types |-> 0]
    /\ repo = "Node"
    /\ ents = [s \in Slots |-> Transient("Node", 1)]
    /\ call = NoCall
    /\ sent = <<>>
    /\ hooks = <<>>
    /\ err = "none"
    /\ found = <<>>
    /\ results = <<>>
    /\ tx = NoTx

\* node.parent = other, or = undefined
SetParent ==
    \E s \in Slots : \E p \in {0} \cup (Slots \ {s}) :
        /\ ents[s].parent # p
        /\ Finish([World(0) EXCEPT !.ents[s].parent = p],
                  Call("set", "Node", Absent, s, p, FALSE))

\* node.children = [other], or = []
SetChildren ==
    \E items \in {<<>>} \cup {<< c >> : c \in ChildSlots} :
        /\ ents[ParentSlot].children # items
        /\ Finish([World(0) EXCEPT !.ents[ParentSlot].children = items],
                  Call("set", "Node", Absent, ParentSlot, 0, FALSE))

\* save(node)
SaveNode ==
    \E s \in Slots, fail \in 0..1 :
        Finish(save(World(fail), s, 0),
               Call("save", "Node", Absent, s, fail, FALSE))

NextGraph ==
    \/ SetParent
    \/ SetChildren
    \/ SaveNode

SpecGraph == InitGraph /\ [][NextGraph]_vars

\* C26: every save() on a finite object graph terminates, for every cascade
\* configuration, a one-to-many cascade whose inverse many-to-one also
\* cascades included
C26_SaveTerminates ==
    call.op = "save" => err # "StackOverflow"

\* the saves that do return: no object holds children, and the saved
\* object's chain of parents ends
RECURSIVE Rooted(_, _)
Rooted(s, n) ==
    \/ ents[s].parent = 0
    \/ n > 0 /\ Rooted(ents[s].parent, n - 1)

C26_ChainsTerminate ==
    (/\ call.op = "save"
     /\ \A s \in Slots : ents[s].children = <<>>
     /\ Rooted(call.slot, MaxSlots))
        => err # "StackOverflow"

----------------------------------------------------------------------------
(* Two relations to one parent (SpecTeam).  Slot 1 holds a Team, the other *)
(* slots Members.  Member declares mentor: many-to-one to Team and then    *)
(* team: many-to-one to Team; Team.members is one-to-many with the inverse *)
(* side team and cascade: true.  The caller fills team.members, may name   *)
(* the team as a member's mentor, and saves the team.                      *)

InitTeam ==
    /\ Initialized
    /\ db = [t \in Stored |-> {}]
    /\ rowid = [t \in Types |-> 0]
    /\ repo = "Team"
    /\ ents = [s \in Slots |->
                 Transient(IF s = ParentSlot THEN "Team" ELSE "Member", 1)]
    /\ call = NoCall
    /\ sent = <<>>
    /\ hooks = <<>>
    /\ err = "none"
    /\ found = <<>>
    /\ results = <<>>
    /\ tx = NoTx

\* team.members = [...]
SetMembers ==
    \E items \in UNION {[1..n -> ChildSlots] : n \in 0..2} :
        /\ ents[ParentSlot].members # items
        /\ Finish([World(0) EXCEPT !.ents[ParentSlot].members = items],
                  Call("set", "Team", Absent, ParentSlot, 0, FALSE))

\* member.mentor = team, or = undefined
SetMentor ==
    \E s \in ChildSlots, t \in {0, ParentSlot} :
        /\ ents[s].mentor # t
        /\ Finish([World(0) EXCEPT !.ents[s].mentor = t],
                  Call("set", "Member", Absent, s, t, FALSE))

\* member.name = ...
RenameMember ==
    \E s \in ChildSlots, n \in Names :
        /\ ents[s].name # n
        /\ Finish([World(0) EXCEPT !.ents[s].name = n],
                  Call("set", "Member", Absent, s, n, FALSE))

\* save(team)
SaveTeam ==
    \E fail \in 0..1 :
        Finish(save(World(fail), ParentSlot, 0),
               Call("save", "Team", Absent, ParentSlot, fail, FALSE))

NextTeam ==
    \/ SetMembers
    \/ SetMentor
    \/ RenameMember
    \/ SaveTeam

SpecTeam == InitTeam /\ [][NextTeam]_vars

\* the column of Member that a select of Team with the relation members
\* joins on: LEFT JOIN Member ON Member.<col> = Team.id
MembersJoinColumn == joins("Team", << "members" >>)[1].col

\* C27: the foreign-key column that select joins a one-to-many relation on
\* is the column a cascaded save writes through the relation's inverse
\* property: every statement a save of a team sent for one of its members
\* binds the team's id to the column select joins on, also when Member
\* declares more than one many-to-one relation to Team
C27_JoinColumnIsSavedColumn ==
    (call.op = "save" /\ call.target = "Team")
        => \A i \in 1..Len(sent) :
              sent[i].table = "Member" /\ sent[i].kind \in {"INSERT", "UPDATE"}
                  => Bound(sent[i], MembersJoinColumn) = ents[ParentSlot].id

\* the column the cascaded save does write: that of the inverse property
C27_SavesInverseColumn ==
    (call.op = "save" /\ call.target = "Team")
        => \A i \in 1..Len(sent) :
              sent[i].table = "Member" /\ sent[i].kind \in {"INSERT", "UPDATE"}
                  => Bound(sent[i], fkNameOf(findRelations("Team")[1].inverseSide))
                         = ents[ParentSlot].id

----------------------------------------------------------------------------
(* A save inside a transaction (SpecRollback).  One caller; the body of    *)
(* transaction() saves one object and then returns or throws.  The         *)
(* transport undoes at ROLLBACK what it wrote since BEGIN, the sequence of *)
(* generated ids included; a statement it rejects leaves the transaction   *)
(* open.  results records whether a transaction was rolled back.           *)

\* 'BEGIN TRANSACTION', 'COMMIT', 'ROLLBACK'
TxStmt(kind) == [NoStmt EXCEPT !.kind = kind]

\* DataSource.startTransaction()
startTransaction(W) == query(W, TxStmt("BEGIN"))

\* DataSource.commitTransaction()
commitTransaction(W) == query(W, TxStmt("COMMIT"))

\* what the transport holds once it accepted ROLLBACK: the tables and
\* sequences as they were at BEGIN; the caught error is thrown again
undone(W, before, e) ==
    IF W.err # "none" THEN W
    ELSE [W EXCEPT !.db = before.db, !.rowid = before.rowid, !.err = e]

\* catch (err) { await this.rollbackTransaction(); throw err; }
rollbackTransaction(W, before) ==
    undone(query([W EXCEPT !.err = "none"], TxStmt("ROLLBACK")), before, W.err)

\* the body: save(entity), and then an error of the body's own or not
runInTransaction(W, s, throws) ==
    IF throws THEN Throw(save(W, s, 0), "BodyError") ELSE save(W, s, 0)

\* try { result = await runInTransaction(this); await commitTransaction() }
committed(W, before) ==
    IF W.err = "none" THEN W ELSE rollbackTransaction(W, before)

settle(W, before) ==
    IF W.err = "none" THEN committed(commitTransaction(W), before)
    ELSE rollbackTransaction(W, before)

started(W, before, s, throws) ==
    IF W.err # "none" THEN W ELSE settle(runInTransaction(W, s, throws), before)

\* DataSource.transaction(runInTransaction)
transaction(W, s, throws) == started(startTransaction(W), W, s, throws)

InitRollback ==
    /\ Initialized
    /\ db = [t \in Stored |-> {}]
    /\ rowid = [t \in Types |-> 0]
    /\ repo = "Log"
    /\ ents = [s \in Slots |-> Transient(repo, 1)]
    /\ call = NoCall
    /\ sent = <<>>
    /\ hooks = <<>>
    /\ err = "none"
    /\ found = <<>>
    /\ results = [rolledBack |-> FALSE]
    /\ tx = NoTx

\* the transport accepted a ROLLBACK
rolledBack(W) ==
    \E i \in 1..Len(W.sent) : W.sent[i].kind = "ROLLBACK" /\ W.fail # i

Outcome(W, c) ==
    /\ W.err # "Overflow"
    /\ db' = W.db
    /\ rowid' = W.rowid
    /\ ents' = W.ents
    /\ sent' = W.sent
    /\ hooks' = W.hooks
    /\ err' = W.err
    /\ found' = W.found
    /\ call' = c
    /\ results' = [rolledBack |-> results.rolledBack \/ rolledBack(W)]
    /\ UNCHANGED <<tx, repo, isInitialized, options, wire>>

\* entity.name = v
EditEntity ==
    \E s \in Slots, v \in Names :
        /\ ents[s].name # v
        /\ Outcome([World(0) EXCEPT !.ents[s].name = v],
                   Call("set", repo, Absent, s, v, FALSE))

\* save(entity), outside any transaction
SaveOutside ==
    \E s \in Slots, fail \in 0..1 :
        Outcome(save(World(fail), s, 0),
                Call("save", repo, Absent, s, fail, FALSE))

\* transaction(async m => { await m.save(entity); [throw ...] })
Transact ==
    \E s \in Slots, throws \in BOOLEAN, fail \in 0..3 :
        Outcome(transaction(World(fail), s, throws),
                Call("transaction", repo, Absent, s, fail, FALSE))

NextRollback ==
    \/ EditEntity
    \/ SaveOutside
    \/ Transact

SpecRollback == InitRollback /\ [][NextRollback]_vars

\* the row of the object in slot s is stored as the object holds it
StoredAsHeld(s) ==
    \E r \in db[ents[s].type] : r.id = ents[s].id /\ r.name = ents[s].name

\* C30: an entity first saved inside a transaction() that rolled back is
\* Transient again, so that a later save of it sends an INSERT and, when it
\* completes, the entity's row exists: every save outside a transaction that
\* completes leaves the row of its entity stored, rollbacks before it or not
C30_SaveAfterRollbackStores ==
    (call.op = "save" /\ err = "none") => StoredAsHeld(call.slot)

\* as long as no transaction was rolled back, a completed save leaves the row
C30_SaveStoresWithoutRollback ==
    (call.op = "save" /\ err = "none" /\ ~results.rolledBack)
        => StoredAsHeld(call.slot)

----------------------------------------------------------------------------
(* Many-to-many relations (SpecJunction).  Slot 1 holds an Article, the    *)
(* other slots Labels; every object starts new and gets its id from its    *)
(* first save.  The caller fills article.labels (cascade: true, the side   *)
(* with @JoinTable) and label.articles (no cascade) and saves any of the   *)
(* objects; the transport may reject one statement of a save for a reason  *)
(* of its own.  The call records that statement's position in value.       *)

ArticleSlot == 1

LabelSlots == Slots \ {ArticleSlot}

InitJunction ==
    /\ Initialized
    /\ db = [t \in Stored |-> {}]
    /\ rowid = [t \in Types |-> 0]
    /\ repo = "Article"
    /\ ents = [s \in Slots |->
                 Transient(IF s = ArticleSlot THEN "Article" ELSE "Label", 1)]
    /\ call = NoCall
    /\ sent = <<>>
    /\ hooks = <<>>
    /\ err = "none"
    /\ found = <<>>
    /\ results = <<>>
    /\ tx = NoTx

\* article.labels = [...]
SetLabels ==
    \E items \in UNION {[1..n -> LabelSlots] : n \in 0..2} :
        /\ ents[ArticleSlot].labels # items
        /\ Finish([World(0) EXCEPT !.ents[ArticleSlot].labels = items],
                  Call("set", "Article", Absent, ArticleSlot, 0, FALSE))

\* label.articles = [article], or = []
SetArticles ==
    \E s \in LabelSlots, items \in {<<>>, << ArticleSlot >>} :
        /\ ents[s].articles # items
        /\ Finish([World(0) EXCEPT !.ents[s].articles = items],
                  Call("set", "Label", Absent, s, 0, FALSE))

\* save(entity)
SaveLinked ==
    \E s \in Slots, fail \in 0..MaxFail :
        Finish(save(World(fail), s, 0),
               Call("save", ents[s].type, Absent, s, fail, FALSE))

NextJunction ==
    \/ SetLabels
    \/ SetArticles
    \/ SaveLinked

SpecJunction == InitJunction /\ [][NextJunction]_vars

IsJunctionInsert(stmt) == stmt.kind = "INSERT VALUES"

\* the related items of the saved entity: the array its many-to-many
\* property holds
RelatedItems == ents[call.slot][findRelations(call.target)[1].propertyName]

\* the items that hold a primary key, in the array's order
RECURSIVE Keyed(_)
Keyed(items) ==
    IF items = <<>> THEN <<>>
    ELSE (IF ents[Head(items)].id \notin {UNDEF, NULL} THEN << Head(items) >> ELSE <<>>)
         \o Keyed(Tail(items))

\* the junction INSERTs the saved entity itself owes: one per keyed item
Owed ==
    [i \in 1..Len(Keyed(RelatedItems)) |->
        [table |-> junctionName(call.target, findRelations(call.target)[1].type),
         params |-> << ents[call.slot].id, ents[Keyed(RelatedItems)[i]].id >>]]

\* the junction INSERTs among the statements sent: the related items' own
\* (a cascaded save of a Label sends those of label.articles) and the
\* saved entity's
JunctionsSent(table) ==
    SelectSeq([i \in 1..Len(sent) |-> [table |-> sent[i].table, params |-> sent[i].params,
                                       junction |-> IsJunctionInsert(sent[i])]],
              LAMBDA x : x.junction /\ x.table = table)

----------------------------------------------------------------------------
(* Construction and initialization (SpecInit).  The DataSource has just    *)
(* been constructed over an existing database file; the caller calls       *)
(* initialize(), synchronize(), query() and the entity operations in any   *)
(* order.  wire keeps the first MaxWire statements the transport received. *)

Take(seq, n) == SubSeq(seq, 1, IF Len(seq) < n THEN Len(seq) ELSE n)

InitTypes == {"Tag", "Log"}

\* the call ends: what Finish records, and the transport's trace
Deliver(W, c, initialized) ==
    /\ W.err # "Overflow"
    /\ db' = W.db
    /\ rowid' = W.rowid
    /\ ents' = W.ents
    /\ sent' = W.sent
    /\ hooks' = W.hooks
    /\ err' = W.err
    /\ found' = W.found
    /\ call' = c
    /\ wire' = Take(wire \o W.sent, MaxWire)
    /\ isInitialized' = initialized
    /\ UNCHANGED <<results, tx, repo, options>>

\* new DataSource(options): isInitialized = false, nothing sent
InitInit ==
    /\ db = [t \in Stored |-> {}]
    /\ rowid = [t \in Types |-> 0]
    /\ repo \in InitTypes
    /\ ents = [s \in Slots |-> Transient(repo, 1)]
    /\ call = NoCall
    /\ sent = <<>>
    /\ hooks = <<>>
    /\ err = "none"
    /\ found = <<>>
    /\ results = <<>>
    /\ tx = NoTx
    /\ isInitialized = FALSE
    /\ options \in [synchronize : BOOLEAN]
    /\ wire = <<>>

Initialize ==
    \E fail \in 0..1 :
        Deliver(initialize(World(fail), options),
                Call("initialize", "", Absent, 0, UNDEF, FALSE), TRUE)

Synchronize ==
    \E fail \in 0..MaxFail :
        Deliver(synchronize(World(fail)),
                Call("synchronize", "", Absent, 0, fail, FALSE), isInitialized)

RawQuery ==
    \E stmt \in {PragmaForeignKeys, select(repo, Absent, <<>>, TRUE).stmt} :
        Deliver(query(World(0), stmt),
                Call("query", stmt.kind, Absent, 0, UNDEF, FALSE), isInitialized)

SaveEntity ==
    \E v \in Names :
        Deliver(save([World(0) EXCEPT !.ents[1] = Transient(repo, v)], 1, 0),
                Call("save", repo, Absent, 1, v, FALSE), isInitialized)

FindAll ==
    Deliver(dsFind(World(0), repo, Absent, <<>>, FALSE),
            Call("find", repo, Absent, 0, UNDEF, FALSE), isInitialized)

DeleteRow ==
    \E n \in Ids :
        Deliver(dsDelete(World(0), repo, Num(n), 1),
                Call("delete", repo, Num(n), 0, 1, FALSE), isInitialized)

NextInit ==
    \/ Initialize
    \/ Synchronize
    \/ RawQuery
    \/ SaveEntity
    \/ FindAll
    \/ DeleteRow

SpecInit == InitInit /\ [][NextInit]_vars

\* C14: PRAGMA foreign_keys = ON is the first statement the DataSource ever
\* sends to the transport: whatever the transport has received, the first
\* of it is the PRAGMA.
C14_PragmaFirst == wire # <<>> => wire[1] = PragmaForeignKeys

\* the many-to-many relations of a table whose junction table is to be
\* created: those with a registered related type and, if owned, a @JoinTable
JunctionRelations(table, owned) ==
    SelectSeq(findRelations(table),
              LAMBDA r : /\ r.relationType = "many-to-many"
                         /\ findTable(r.type)
                         /\ owned => [target |-> table, propertyName |-> r.propertyName]
                                        \in joinTables)

\* the schema of the registered tables from the i-th on: per table its
\* CREATE TABLE, its indices' CREATE INDEX, its junction tables' CREATE TABLE
RECURSIVE SchemaFrom(_, _)
SchemaFrom(i, owned) ==
    IF i > Len(tables) THEN <<>>
    ELSE << createTable(tables[i]) >>
         \o [k \in 1..Len(findIndices(tables[i])) |->
                createIndex(tables[i], findIndices(tables[i])[k])]
         \o [k \in 1..Len(JunctionRelations(tables[i], owned)) |->
                createJunctionTable(tables[i], JunctionRelations(tables[i], owned)[k],
                                    JunctionRelations(tables[i], owned)[k].type)]
         \o SchemaFrom(i + 1, owned)

\* what a synchronize() call sent is the schema up to the statement the
\* transport rejected, or all of it
SentSchema(owned) ==
    call.op = "synchronize" =>
        /\ Len(sent) <= Len(SchemaFrom(1, owned))
        /\ sent = Take(SchemaFrom(1, owned), Len(sent))
        /\ err = "none" => Len(sent) = Len(SchemaFrom(1, owned))

C28_ColumnsBeforeConstraints ==
    \A i \in 1..Len(sent) :
        sent[i].kind = "CREATE TABLE" => WellFormed(sent[i].defs)

----------------------------------------------------------------------------
(* DataSource.transaction (SpecTx).  Each caller holds a stack of          *)
(* transaction() activations, the innermost last; an activation is         *)
(*   [pc, error, sent, bodyError]                                          *)
(* pc: "begin" (about to await startTransaction), "body" (the callback is  *)
(* running), "commit" (about to await commitTransaction), "rollback" (in   *)
(* the catch block, about to await rollbackTransaction, error holding the  *)
(* caught err).  done keeps how each caller's last top-level call ended.   *)
(* The transport is one SQLite connection: active is its in-transaction    *)
(* flag, last the statement it received last.                              *)

Callers == 1..MaxCallers

Frame(pc) == [pc |-> pc, error |-> "none", sent |-> <<>>, bodyError |-> "none"]

NoDone == [outcome |-> "none", sent |-> <<>>, bodyError |-> "none"]

NoStatement == [stmt |-> "", caller |-> 0, ok |-> FALSE, open |-> 0]

\* transaction() activations that are past their BEGIN and not yet settled
OpenCount(frames) ==
    Cardinality({<<p, i>> \in Callers \X (1..(MaxNest + 1)) :
                    i <= Len(frames[p]) /\ frames[p][i].pc \in {"body", "commit", "rollback"}})

Top(p) == tx.frames[p][Len(tx.frames[p])]

\* the activation of caller p settles: a rejection reaches the enclosing
\* callback as an exception it does not catch, a result lets it go on; a
\* top-level activation is recorded in done
Settle(frames, done, p, outcome) ==
    LET n == Len(frames[p])
        f == frames[p][n]
        rest == SubSeq(frames[p], 1, n - 1)
    IN IF n = 1
       THEN [frames |-> [frames EXCEPT ![p] = <<>>],
             done |-> [done EXCEPT ![p] =
                         [outcome |-> outcome, sent |-> f.sent, bodyError |-> f.bodyError]]]
       ELSE [frames |-> [frames EXCEPT ![p] =
                           IF outcome = "ok" THEN rest
                           ELSE [rest EXCEPT ![n - 1].pc = "rollback",
                                            ![n - 1].error = outcome,
                                            ![n - 1].bodyError = outcome]],
             done |-> done]

\* this.query(stmt) of the innermost activation of caller p
Sent(p, stmt, ok) ==
    [stmt |-> stmt, caller |-> p, ok |-> ok, open |-> OpenCount(tx.frames)]

TxVars(frames, done, last, active) ==
    /\ tx' = [frames |-> frames, done |-> done, last |-> last, active |-> active]
    /\ UNCHANGED <<db, rowid, ents, call, sent, hooks, err, found, results, repo, isInitialized, options, wire>>

InitTx ==
    /\ Initialized
    /\ db = [t \in Stored |-> {}]
    /\ rowid = [t \in Types |-> 0]
    /\ repo = "User"
    /\ ents = [s \in Slots |-> Transient(repo, 1)]
    /\ call = NoCall
    /\ sent = <<>>
    /\ hooks = <<>>
    /\ err = "none"
    /\ found = <<>>
    /\ results = <<>>
    /\ tx = [frames |-> [p \in Callers |-> <<>>], done |-> [p \in Callers |-> NoDone],
             last |-> NoStatement, active |-> FALSE]

\* a caller calls transaction(body)
TxCall(p) ==
    /\ tx.frames[p] = <<>>
    /\ TxVars([tx.frames EXCEPT ![p] = <<Frame("begin")>>],
              [tx.done EXCEPT ![p] = NoDone], tx.last, tx.active)

\* the running callback calls transaction(inner) on the same DataSource
TxNest(p) ==
    /\ tx.frames[p] # <<>>
    /\ Len(tx.frames[p]) <= MaxNest
    /\ Top(p).pc = "body"
    /\ TxVars([tx.frames EXCEPT ![p] = Append(@, Frame("begin"))],
              tx.done, tx.last, tx.active)

\* line 179: await this.startTransaction().  SQLite rejects BEGIN inside a
\* transaction and may reject it otherwise (SQLITE_BUSY)
TxBegin(p) ==
    /\ tx.frames[p] # <<>>
    /\ Top(p).pc = "begin"
    /\ \E ok \in BOOLEAN :
        /\ ok => ~tx.active
        /\ LET n == Len(tx.frames[p])
               fs == [tx.frames EXCEPT ![p][n].sent = Append(@, "BEGIN")]
           IN IF ok
              THEN TxVars([fs EXCEPT ![p][n].pc = "body"], tx.done,
                          Sent(p, "BEGIN", TRUE), TRUE)
              ELSE LET r == Settle(fs, tx.done, p, "EBegin") IN
                   TxVars(r.frames, r.done, Sent(p, "BEGIN", FALSE), tx.active)

\* line 181: the callback's promise resolves
TxBodyReturns(p) ==
    /\ tx.frames[p] # <<>>
    /\ Top(p).pc = "body"
    /\ TxVars([tx.frames EXCEPT ![p][Len(tx.frames[p])].pc = "commit"],
              tx.done, tx.last, tx.active)

\* line 181/184: the callback rejects with its own error E; the failure may
\* be one on which SQLite has rolled the transaction back by itself
TxBodyThrows(p) ==
    /\ tx.frames[p] # <<>>
    /\ Top(p).pc = "body"
    /\ \E autoRollback \in BOOLEAN :
        LET n == Len(tx.frames[p]) IN
        TxVars([tx.frames EXCEPT ![p][n].pc = "rollback", ![p][n].error = "E",
                                 ![p][n].bodyError = "E"],
               tx.done, tx.last, IF autoRollback THEN FALSE ELSE tx.active)

\* line 182: await this.commitTransaction(); a rejection lands in the catch
TxCommit(p) ==
    /\ tx.frames[p] # <<>>
    /\ Top(p).pc = "commit"
    /\ \E ok \in BOOLEAN :
        /\ ok => tx.active
        /\ LET n == Len(tx.frames[p])
               fs == [tx.frames EXCEPT ![p][n].sent = Append(@, "COMMIT")]
           IN IF ok
              THEN LET r == Settle(fs, tx.done, p, "ok") IN
                   TxVars(r.frames, r.done, Sent(p, "COMMIT", TRUE), FALSE)
              ELSE TxVars([fs EXCEPT ![p][n].pc = "rollback", ![p][n].error = "ECommit"],
                          tx.done, Sent(p, "COMMIT", FALSE), tx.active)

\* lines 185-186: await this.rollbackTransaction(); throw err.  SQLite
\* rejects ROLLBACK when no transaction is active
TxRollback(p) ==
    /\ tx.frames[p] # <<>>
    /\ Top(p).pc = "rollback"
    /\ LET n == Len(tx.frames[p])
           ok == tx.active
           fs == [tx.frames EXCEPT ![p][n].sent = Append(@, "ROLLBACK")]
           r == Settle(fs, tx.done, p, IF ok THEN Top(p).error ELSE "ERollback")
       IN TxVars(r.frames, r.done, Sent(p, "ROLLBACK", ok), FALSE)

\* a caller that is in no transaction() call of its own makes a top-level
\* call (save, update, delete ...): its statement goes through
\* DataSource.query to the one connection, whatever that connection is in
\* the middle of
TxStatement(p) ==
    /\ tx.frames[p] = <<>>
    /\ \E ok \in BOOLEAN :
        TxVars(tx.frames, tx.done, Sent(p, "INSERT", ok), tx.active)

NextTx ==
    \E p \in Callers :
        \/ TxCall(p)
        \/ TxStatement(p)
        \/ TxNest(p)
        \/ TxBegin(p)
        \/ TxBodyReturns(p)
        \/ TxBodyThrows(p)
        \/ TxCommit(p)
        \/ TxRollback(p)

SpecTx == InitTx /\ [][NextTx]_vars

\* C2: for every call transaction(body), BEGIN is sent before body runs,
\* and if body fails with an error E then ROLLBACK is sent, COMMIT is never
\* sent, and the call fails with E itself, whatever the transport does.
C2_BodyErrorRethrown ==
    \A p \in Callers :
        /\ \A i \in 1..Len(tx.frames[p]) :
              tx.frames[p][i].pc \in {"body", "commit", "rollback"}
                 => (tx.frames[p][i].sent # <<>> /\ tx.frames[p][i].sent[1] = "BEGIN")
        /\ (tx.done[p].outcome # "none" /\ tx.done[p].bodyError # "none")
              => /\ \E i \in 1..Len(tx.done[p].sent) : tx.done[p].sent[i] = "ROLLBACK"
                 /\ \A i \in 1..Len(tx.done[p].sent) : tx.done[p].sent[i] # "COMMIT"
                 /\ tx.done[p].outcome = tx.done[p].bodyError

\* C13: while a transaction() call is between its BEGIN and its COMMIT or
\* ROLLBACK, a statement of another caller's top-level call is never
\* executed inside that transaction: the connection does not execute it
\* while the transaction is active.
C13_Isolated ==
    (tx.last.stmt = "INSERT" /\ tx.last.ok) => ~(tx.last.open > 0 /\ tx.active)

\* C3: a transaction() call made while another transaction on the same
\* DataSource is still open, from inside the callback or from a concurrent
\* caller, is diagnosed instead of sending a second BEGIN to the transport.
C3_NoBeginWhileOpen == tx.last.stmt = "BEGIN" => tx.last.open = 0

----------------------------------------------------------------------------
(* Properties of the criteria-based calls and of remove (SpecCrud).        *)

\* the rows a caller means by a filter: a bare number means the row with
\* that id, an array the rows with those ids, an object the rows whose
\* columns equal its values
Meant(r, c) ==
    CASE c.kind = "num" -> r.id = c.n
      [] c.kind = "arr" -> \E i \in 1..Len(c.list) : r.id = c.list[i]
      [] c.kind = "obj" -> \A i \in 1..Len(c.conds) : r[c.conds[i].key] = c.conds[i].value
      [] OTHER -> FALSE

NoFilter(c) == c = Absent \/ c = Obj(<<>>)

\* C1: delete and update called with an absent or an empty filter fail with
\* MissingWhereClause and send no statement to the transport.
C1_EmptyFilterRejected ==
    (call.op \in {"delete", "update"} /\ NoFilter(call.criteria))
        => (err = "MissingWhereClause" /\ sent = <<>>)

\* C4: update(type, n, values) and delete(type, n) with a numeric id n
\* change exactly the rows whose id is n: update writes the values on them,
\* delete removes them (or stamps their soft-delete column), and every other
\* row stays as it was.
C4_NumericIdHitsThatRow ==
    [][ (call'.criteria.kind = "num" /\ call'.op \in {"update", "delete"}) =>
          LET t == call'.target
              n == call'.criteria.n
          IN db'[t] =
               CASE call'.op = "update" ->
                      {IF r.id = n THEN [r EXCEPT !.name = call'.value] ELSE r : r \in db[t]}
                 [] HasDeleteDate(t) ->
                      {IF r.id = n THEN [r EXCEPT !.deletedAt = call'.value] ELSE r : r \in db[t]}
                 [] OTHER -> {r \in db[t] : r.id # n} ]_vars

\* what find() returns in the current state, as rows
FindNow(withDeleted) ==
    LET f == dsFind(World(0), "User", Absent, <<>>, withDeleted).found IN
    [i \in 1..Len(f) |->
        [id |-> Get(f[i].cols, "id"), name |-> Get(f[i].cols, "name"),
         deletedAt |-> Get(f[i].cols, "deletedAt"), authorId |-> NULL,
         version |-> NULL, parentId |-> NULL, mentorId |-> NULL, teamId |-> NULL]]

\* C5, in every state: find() returns exactly the rows whose soft-delete
\* column is null, and find({withDeleted: true}) returns every row.
C5_FindFilters ==
    /\ SeqToSet(FindNow(FALSE)) = {r \in db["User"] : r.deletedAt = NULL}
    /\ Len(FindNow(FALSE)) = Cardinality({r \in db["User"] : r.deletedAt = NULL})
    /\ SeqToSet(FindNow(TRUE)) = db["User"]
    /\ Len(FindNow(TRUE)) = Cardinality(db["User"])

\* C5, softRemove then recover: a recover that follows a softRemove with
\* the same filter succeeds and leaves every row the filter means with a
\* null soft-delete column, which by C5_FindFilters in the state it leaves
\* is a row find() returns.
C5_RecoverUndoes ==
    (call.op = "softRemove" /\ err = "none" /\ call'.op = "recover"
     /\ call'.criteria = call.criteria /\ call'.target = "User")
        => /\ err' = "none"
           /\ \A r \in db["User"] : Meant(r, call.criteria) =>
                 \E r2 \in db'["User"] : r2.id = r.id /\ r2.deletedAt = NULL

\* C5: for a type with a soft-delete column, after any sequence of save,
\* softRemove, recover and delete, find() returns exactly the rows whose
\* soft-delete column is null and find({withDeleted: true}) all rows, and
\* softRemove followed by recover with the same filter makes the rows
\* visible to find() again.
C5_SoftDeleteVisibility == [](repo = "User" => C5_FindFilters) /\ [][C5_RecoverUndoes]_vars

C5_Witness ==
    /\ call.op = "recover" /\ err = "none" /\ call.target = "User"
    /\ \E r \in db["User"] : Meant(r, call.criteria) /\ r.deletedAt = NULL
    /\ \E r \in db["User"] : r.deletedAt # NULL
    /\ Len(FindNow(FALSE)) < Len(FindNow(TRUE))

\* C6, the statement: whatever delete sends is a DELETE when the type has no
\* soft-delete column, and otherwise an UPDATE whose SET list is that column
\* alone, bound to the current time.
C6_Statement ==
    call.op = "delete" =>
        \A i \in 1..Len(sent) :
            IF HasDeleteDate(call.target)
            THEN /\ sent[i].kind = "UPDATE"
                 /\ sent[i].set = << [col |-> "deletedAt", expr |-> "?"] >>
                 /\ sent[i].params[1] = call.value
            ELSE sent[i].kind = "DELETE"

\* C6, the effect of a delete that succeeds: on a type with a soft-delete
\* column the rows the filter means get the current time in that column and
\* no row is removed; on a type without one those rows are removed.
C6_Effect ==
    (call'.op = "delete" /\ err' = "none") =>
        LET t == call'.target IN
        /\ Len(sent') = 1
        /\ db'[t] = IF HasDeleteDate(t)
                    THEN {IF Meant(r, call'.criteria)
                          THEN [r EXCEPT !.deletedAt = call'.value] ELSE r : r \in db[t]}
                    ELSE {r \in db[t] : ~Meant(r, call'.criteria)}
        /\ HasDeleteDate(t) => Cardinality(db'[t]) = Cardinality(db[t])

C7_Outcome ==
    call.op \in {"softRemove", "recover"} =>
        /\ ~HasDeleteDate(call.target) => (err = "MissingSoftDeleteColumn" /\ sent = <<>>)
        /\ (HasDeleteDate(call.target) /\ call.criteria = Absent)
              => (err = "MissingWhereClause" /\ sent = <<>>)

\* C7, the rows: such a call changes no row.
C7_NoRowChanges ==
    (call'.op \in {"softRemove", "recover"}
     /\ (~HasDeleteDate(call'.target) \/ call'.criteria = Absent))
        => db' = db

\* C7: softRemove and recover fail with MissingSoftDeleteColumn when the
\* type has no soft-delete column and with MissingWhereClause when no filter
\* is supplied; no statement is sent and no row changes.
C7_SoftRemoveGuards == []C7_Outcome /\ [][C7_NoRowChanges]_vars

C7_Witness ==
    /\ call.op = "softRemove" /\ call.criteria = Absent /\ HasDeleteDate(call.target)
    /\ err = "MissingWhereClause" /\ db[call.target] # {}

\* C8: remove(entity) on an entity whose primary key holds no value fails
\* with MissingPrimaryKey, invokes no listener and sends no statement.
C8_RemoveNeedsPrimaryKey ==
    (call.op = "remove" /\ ~Truthy(ents[call.slot].id))
        => (err = "MissingPrimaryKey" /\ hooks = <<>> /\ sent = <<>>)

C8_Witness ==
    /\ call.op = "remove" /\ ~Truthy(ents[call.slot].id)
    /\ err = "MissingPrimaryKey" /\ db[call.target] # {}

\* C23: remove(entity) with the primary key set invokes the BeforeRemove
\* listeners before any statement, sends one DELETE filtered by the entity's
\* primary key, invokes the AfterRemove listeners after it, and when it has
\* completed the table holds no row with the entity's key.
C23_RemoveDeletesRow ==
    (call.op = "remove" /\ Truthy(ents[call.slot].id) /\ err = "none") =>
        /\ Len(sent) = 1
        /\ sent[1].kind = "DELETE"
        /\ sent[1].table = call.target
        /\ Len(sent[1].where) = 1
        /\ sent[1].where[1].col = "id"
        /\ sent[1].params = << ents[call.slot].id >>
        /\ Len(hooks) = 2
        /\ hooks[1].type = "BeforeRemove" /\ hooks[1].after = 0
        /\ hooks[2].type = "AfterRemove" /\ hooks[2].after = 1
        /\ ~\E r \in db[call.target] : r.id = ents[call.slot].id

\* C9: a save(parent) that completes, where parent holds unsaved children in
\* its cascading one-to-many relation, leaves the parent and every child with
\* a primary key and every child's inverse property referencing the parent;
\* the first statement sent is the parent's (its INSERT when it was unsaved),
\* one INSERT per child follows it, each carrying the parent's primary key
\* as its foreign key, and the children's rows are stored with that key.
C9_Step ==
    LET kids == ents[ParentSlot].posts
        p == ents'[ParentSlot].id
        inserts == {j \in 1..Len(sent') : IsInsert(sent'[j], "Post")}
    IN (/\ call'.op = "save" /\ call'.slot = ParentSlot /\ err' = "none"
        /\ kids # <<>>
        /\ \A i \in 1..Len(kids) : ~Truthy(ents[kids[i]].id))
       => /\ Truthy(p)
          /\ \A i \in 1..Len(kids) :
                /\ Truthy(ents'[kids[i]].id)
                /\ ents'[kids[i]].author = ParentSlot
                /\ \E r \in db'["Post"] : r.id = ents'[kids[i]].id /\ r.authorId = p
          /\ sent'[1].table = "User"
          /\ (~Truthy(ents[ParentSlot].id) => IsInsert(sent'[1], "User"))
          /\ Cardinality(inserts) = Cardinality(SeqToSet(kids))
          /\ \A j \in inserts : j > 1 /\ Bound(sent'[j], "authorId") = p

C9_CascadeSavesChildren == [][C9_Step]_vars

\* a new user with two new posts has just been saved in one call
C9_Witness ==
    /\ call.op = "save" /\ call.slot = ParentSlot /\ err = "none"
    /\ Len(sent) = 3
    /\ IsInsert(sent[1], "User") /\ IsInsert(sent[2], "Post") /\ IsInsert(sent[3], "Post")
    /\ Cardinality(SeqToSet(ents[ParentSlot].posts)) = 2
    /\ \A c \in ChildSlots : ents[c].author = ParentSlot

\* the values of ids that are not null, each at its first position
RECURSIVE FirstSeen(_, _)
FirstSeen(ids, i) ==
    IF i > Len(ids) THEN <<>>
    ELSE (IF ids[i] # NULL /\ ids[i] # UNDEF /\ \A j \in 1..(i - 1) : ids[j] # ids[i]
          THEN <<ids[i]>> ELSE <<>>)
         \o FirstSeen(ids, i + 1)

PkOf(entity) == Get(entity.cols, "id")

\* C10: mapResults returns one root per distinct non-null primary key of the
\* rows, in first-seen order, and the requested to-many array of each root
\* holds one element per distinct related primary key joined to that root,
\* none twice and none missing, however many raw rows there are.
C10_OneObjectPerKey ==
    call.op \in {"mapResults", "mapPlain"} =>
        /\ err = "none"
        /\ [k \in 1..Len(found) |-> PkOf(found[k])]
              = FirstSeen([i \in 1..Len(results) |-> results[i].id], 1)
        /\ call.op = "mapResults" =>
             \A k \in 1..Len(found) :
                LET items == found[k].rels[1].items
                    joined == {results[i].posts_id : i \in
                                 {i \in 1..Len(results) :
                                     results[i].id = PkOf(found[k])
                                     /\ results[i].posts_id # NULL}}
                IN /\ Len(found[k].rels) = 1
                   /\ found[k].rels[1].name = "posts"
                   /\ {PkOf(items[i]) : i \in 1..Len(items)} = joined
                   /\ Len(items) = Cardinality(joined)

\* three raw rows of one user, two of them for the same post, were mapped
C10_Witness ==
    /\ call.op = "mapResults"
    /\ Len(results) = 3
    /\ Len(found) = 1
    /\ Len(found[1].rels[1].items) = 2

\* the stored rows of the repository's table that carry the values entity
\* gives on the conflict paths
RowsForKey(rows, entity, paths) ==
    {r \in rows : \A i \in 1..Len(paths) : r[paths[i]] = Bind(Get(entity, paths[i]))}

\* two successive successful upserts on the same conflict paths whose
\* objects agree on them leave one row for the key, holding what the second
\* object gives outside the conflict paths (NULL for a data column it omits)
UpsertTwice(keyed) ==
    LET e1 == call.criteria.entity
        e2 == call'.criteria.entity
        paths == call'.criteria.paths
        rows == RowsForKey(db'[repo], e2, paths)
    IN (/\ call.op = "upsert" /\ err = "none"
        /\ call'.op = "upsert" /\ err' = "none"
        /\ call.criteria.paths = paths
        /\ \A i \in 1..Len(paths) : Get(e1, paths[i]) = Get(e2, paths[i])
        /\ keyed => \A i \in 1..Len(paths) : Get(e2, paths[i]) # UNDEF)
       => /\ Cardinality(rows) = 1
          /\ \A r \in rows :
                /\ "name" \notin SeqToSet(paths) => r.name = Bind(Get(e2, "name"))
                /\ ("id" \notin SeqToSet(paths) /\ Get(e2, "id") # UNDEF)
                      => r.id = Get(e2, "id")

\* C11 as stated: upsert(type, e1, paths) followed by upsert(type, e2, paths),
\* e1 and e2 agreeing on the conflict-path columns, leaves exactly one row
\* for that key, its non-conflict columns holding e2's values.
C11_UpsertTwiceAnyKey == [][UpsertTwice(FALSE)]_vars

\* C11 for objects that give a value on every conflict-path column: the two
\* upserts leave exactly one row for that key, with e2's values.
C11_UpsertTwiceOneRow == [][UpsertTwice(TRUE)]_vars

\* a second upsert on the unique name has replaced the row of the first
C11_Witness ==
    /\ call.op = "upsert" /\ err = "none" /\ repo = "Tag"
    /\ call.criteria.paths = <<"name">>
    /\ Get(call.criteria.entity, "name") # UNDEF
    /\ Cardinality(db["Tag"]) = 1
    /\ rowid["Tag"] = 2

CommaFree(items) ==
    \A i \in 1..Len(items) : \A k \in 1..Len(items[i]) : items[i][k] # ","

\* C12: an array of comma-free strings stored in an array-typed column and
\* read back is an array equal to the original, element for element and
\* with the same length.
C12_ArrayRoundTrip ==
    (repo = "Note" /\ found # <<>> /\ CommaFree(ents[1].tags.items))
        => /\ found[1].tags.tag = "array"
           /\ Len(found[1].tags.items) = Len(ents[1].tags.items)
           /\ found[1].tags = ents[1].tags

====
